------------------------------- MODULE Cli_proofs -------------------------------
(***************************************************************************)
(* The command-line tool, for any number of processes, of ids for new apps *)
(* and any bounds of the wait.  Every lemma about a step assumes Processes *)
(* and Stores, what is true of the process records and of the places they  *)
(* write.  Three invariants are built on those: KeysInv about the keys of  *)
(* applications, OutcomeInv about what a process that ended well says, and *)
(* NamedInv about what a process that runs alone has found.                *)
(***************************************************************************)
EXTENDS Cli, FiniteSetTheorems, FunctionTheorems, TLAPS

(* r is a process record.                                                   *)
IsRun(r) ==
  r = [cmd |-> r.cmd, at |-> r.at, exit |-> r.exit, after |-> r.after, before |-> r.before,
       id |-> r.id, ref |-> r.ref, flags |-> r.flags, file |-> r.file, made |-> r.made,
       dry |-> r.dry, wait |-> r.wait, read |-> r.read, status |-> r.status, left |-> r.left,
       delay |-> r.delay, retries |-> r.retries]

Commands == {"update", "delete", "add", "regenerate", "create", "setup", "login", "logout",
             "switch", "sync"}

(* The commands that come to a place.                                       *)
CommandsAt(at) ==
  CASE at = "resolve" -> {"update", "delete", "add", "regenerate", "switch", "sync"}
    [] at \in {"flags", "read", "patch"} -> {"update"}
    [] at = "delete" -> {"delete"}
    [] at \in {"choose", "scan", "pick", "add"} -> {"add"}
    [] at = "rotate" -> {"regenerate", "setup"}
    [] at = "create" -> {"create", "setup"}
    [] at \in {"load", "rename", "ignore"} -> {"regenerate", "create", "setup"}
    [] at \in {"package", "auth", "look", "list", "app"} -> {"setup"}
    [] at \in {"browser", "paste", "exchange", "opener"} -> {"login", "setup"}
    [] at = "config" -> {"logout", "switch"}
    [] at \in {"truncate", "fill"} -> {"login", "setup", "logout", "switch"}
    [] at \in {"request", "wait", "poll"} -> {"sync"}
    [] at = "ended" -> Commands
    [] OTHER -> {}

Writing == {"load", "rename", "ignore"}

KeyPart(r) ==
  /\ r.made = <<>> \/ r.made \in Ids \X Nat
  /\ r.made # <<>> => r.at \in Writing \cup {"ended"}
  /\ r.at \in Writing => r.made # <<>> /\ r.file \in Files
  /\ r.at = "rename" => r.read = [keys |-> r.read.keys, lines |-> r.read.lines]
  /\ r.at = "rotate" => r.id \in Ids /\ r.file \in Files
  /\ r.at = "create" /\ r.cmd = "setup" => r.file \in Files

Placed(r) ==
  /\ IsRun(r)
  /\ r.cmd = None => r = Fresh
  /\ r.cmd # None => r.cmd \in CommandsAt(r.at)
  /\ r.exit = None <=> r.at # "ended"
  /\ KeyPart(r)

UpdateFlags == {"name", "url", "drafts", "spaceId"}

ChoicePart(r) ==
  /\ r.at = "resolve" => r.id = None /\ r.flags = {} /\ r.wait = FALSE /\ r.read = <<>>
  /\ r.at = "request" => r.wait = FALSE
  /\ r.at \in {"choose", "scan"} => r.flags = {}
  /\ r.at = "add" => ~r.dry
  /\ r.at = "app" => r.flags \subseteq Ids
  /\ r.at \in {"flags", "read", "patch", "delete"} => r.id \in Ids
  /\ r.at = "flags" => r.read = <<>>
  /\ r.at = "read" => r.flags \subseteq {"name", "url", "drafts"}
  /\ r.at = "patch" =>
       /\ r.flags \subseteq UpdateFlags
       /\ \/ r.read = <<>> /\ r.flags \subseteq {"name"}
          \/ r.read # <<>> /\ r.read = [x \in Opts |-> r.read[x]]
             /\ \A x \in r.flags \cap Opts : r.read[x] = New
  /\ r.at \in {"truncate", "fill"} =>
       /\ r.read = [apiKey |-> r.read.apiKey, workspaceId |-> r.read.workspaceId]
       /\ r.cmd = "login" => r.read.apiKey = "token"
       /\ r.cmd = "switch" => r.read.workspaceId = r.id

Sound(r) == Placed(r) /\ ChoicePart(r)

Stores ==
  /\ integrations = [i \in Ids |-> integrations[i]]
  /\ \A i \in Ids : integrations[i] = [x \in Fields |-> integrations[i][x]]
  /\ \A i \in Apps : integrations[i].key \in Nat
  /\ config = [apiKey |-> config.apiKey, workspaceId |-> config.workspaceId]
  /\ env = [f \in Files |-> [keys |-> env[f].keys, lines |-> env[f].lines]]
  /\ op = [p \in Procs |-> op[p]]

Processes ==
  /\ run = [p \in Procs |-> run[p]]
  /\ \A p \in Procs : Sound(run[p])
  /\ \A p \in Procs : run[p].after \subseteq {q \in Procs : run[q].at = "ended"}

(* What the process r may have changed so far.                              *)
Touched(r) ==
  IF r.at \in Writing THEN Named(r)
  ELSE IF r.at = "fill" \/ r.cmd = "setup" THEN ConfigPlaces ELSE {}

Targets == {"flags", "read", "patch", "delete", "rotate"} \cup Writing

(* r, that runs alone and found the places as they were, has now.           *)
Snap(r, now) ==
  r.at # "ended" =>
    /\ \A x \in Places \ Touched(r) : now[x] = r.before[x]
    /\ r.at \in Targets /\ r.cmd \in {"update", "delete", "regenerate"} => r.id \in Meant(r)
    /\ r.at = "rename" => r.read.lines = r.before[<<"lines", r.file>>]
    /\ r.at = "patch" /\ r.read # <<>> =>
         \A x \in Opts \ r.flags : r.read[x] = r.before[<<r.id, x>>]
    /\ r.at \in {"truncate", "fill"} =>
         /\ r.cmd = "logout" => r.read.workspaceId = r.before[<<"config", "workspaceId">>]
         /\ r.cmd = "switch" => r.read.apiKey = r.before[<<"config", "apiKey">>]

Waiting(r, outcome) == r.at \in {"wait", "poll"} /\ r.status \in Settled => outcome = r.status

(* s is r with other values in the fields of what.                          *)
Becomes(r, s, what) ==
  /\ IsRun(s)
  /\ s.cmd = IF "cmd" \in DOMAIN what THEN what.cmd ELSE r.cmd
  /\ s.at = IF "at" \in DOMAIN what THEN what.at ELSE r.at
  /\ s.exit = IF "exit" \in DOMAIN what THEN what.exit ELSE r.exit
  /\ s.after = IF "after" \in DOMAIN what THEN what.after ELSE r.after
  /\ s.before = IF "before" \in DOMAIN what THEN what.before ELSE r.before
  /\ s.id = IF "id" \in DOMAIN what THEN what.id ELSE r.id
  /\ s.ref = IF "ref" \in DOMAIN what THEN what.ref ELSE r.ref
  /\ s.flags = IF "flags" \in DOMAIN what THEN what.flags ELSE r.flags
  /\ s.file = IF "file" \in DOMAIN what THEN what.file ELSE r.file
  /\ s.made = IF "made" \in DOMAIN what THEN what.made ELSE r.made
  /\ s.dry = IF "dry" \in DOMAIN what THEN what.dry ELSE r.dry
  /\ s.wait = IF "wait" \in DOMAIN what THEN what.wait ELSE r.wait
  /\ s.read = IF "read" \in DOMAIN what THEN what.read ELSE r.read
  /\ s.status = IF "status" \in DOMAIN what THEN what.status ELSE r.status
  /\ s.left = IF "left" \in DOMAIN what THEN what.left ELSE r.left
  /\ s.delay = IF "delay" \in DOMAIN what THEN what.delay ELSE r.delay
  /\ s.retries = IF "retries" \in DOMAIN what THEN what.retries ELSE r.retries

(* With changes the fields it is given.                                     *)
LEMMA WithFields ==
  ASSUME NEW r, IsRun(r), NEW what, NEW s, s = With(r, what)
  PROVE  Becomes(r, s, what)
  BY DEF With, IsRun, Becomes

(* What a process that ended keeps.                                         *)
Ended(r, s, code) ==
  /\ IsRun(s) /\ s.at = "ended" /\ s.exit = code /\ s.before = <<>> /\ s.read = <<>>
  /\ s.cmd = r.cmd /\ s.after = r.after /\ s.file = r.file /\ s.made = r.made
  /\ code = "ok" => /\ s.id = r.id /\ s.flags = r.flags /\ s.dry = r.dry
                    /\ s.wait = r.wait /\ s.status = r.status
  /\ code # "ok" => s.id = None /\ s.flags = {} /\ s.dry = FALSE /\ s.wait = FALSE

(* What Completed leaves of a record.                                       *)
LEMMA CompletedFields ==
  ASSUME NEW r, IsRun(r), NEW s, s = Completed(r)
  PROVE  Ended(r, s, "ok")
  BY DEF Completed, IsRun, Ended

(* What Stopped leaves of a record.                                         *)
LEMMA StoppedFields ==
  ASSUME NEW r, IsRun(r), NEW code, code # "ok", NEW s, s = Stopped(r, code)
  PROVE  Ended(r, s, code)
  BY DEF Stopped, Fresh, IsRun, Ended

Others(p) ==
  /\ run' = [q \in Procs |-> run'[q]]
  /\ \A q \in Procs \ {p} : run'[q] = run[q]

(* An assignment to one process leaves the others alone.                    *)
LEMMA OneMoves ==
  ASSUME Processes, NEW p \in Procs, NEW s, run' = [run EXCEPT ![p] = s]
  PROVE  Others(p) /\ run'[p] = s
  BY DEF Processes, Others

(* A process that continues has other values in the fields it is given.     *)
LEMMA Goes ==
  ASSUME Processes, NEW p \in Procs, NEW what, Continue(p, what)
  PROVE  Others(p) /\ Becomes(run[p], run'[p], what)
<1> DEFINE s == With(run[p], what)
<1>1. Others(p) /\ run'[p] = s
  <2> HIDE DEF s
  <2>1. run' = [run EXCEPT ![p] = s]
    BY DEF Continue, s
  <2> QED BY <2>1, OneMoves
<1>2. IsRun(run[p])
  BY DEF Processes, Sound, Placed
<1> HIDE DEF s
<1>3. s = With(run[p], what)
  BY DEF s
<1> QED BY <1>1, <1>2, <1>3, WithFields

(* A process that ends keeps its command, its file and what it made.        *)
LEMMA Ends ==
  ASSUME Processes, NEW p \in Procs, NEW code, End(p, code)
  PROVE  Others(p) /\ Ended(run[p], run'[p], code)
<1>1. IsRun(run[p])
  BY DEF Processes, Sound, Placed
<1>2. CASE code = "ok"
  BY <1>1, <1>2, OneMoves, CompletedFields DEF End
<1>3. CASE code # "ok"
  BY <1>1, <1>3, OneMoves, StoppedFields DEF End
<1> QED BY <1>2, <1>3

-----------------------------------------------------------------------------
(* A place is come to by commands only.                                     *)
LEMMA EveryCommand == \A at : CommandsAt(at) \subseteq Commands
  BY DEF CommandsAt, Commands

(* A process that has ended is a sound one.                                 *)
LEMMA EndSound ==
  ASSUME NEW r, Sound(r), r.cmd # None, NEW s, NEW code \in {"ok", "failed", "killed"},
         Ended(r, s, code)
  PROVE  Sound(s)
<1>1. s.cmd # None /\ s.cmd \in CommandsAt(s.at) /\ s.exit # None
  BY EveryCommand DEF Sound, Placed, Ended, CommandsAt, None
<1>2. KeyPart(s)
  BY DEF Sound, Placed, Ended, KeyPart, Writing
<1>3. ChoicePart(s)
  BY DEF Ended, ChoicePart
<1> QED BY <1>1, <1>2, <1>3 DEF Ended, Sound, Placed

(* Processes holds after a step of one that stays sound.                    *)
LEMMA Moved ==
  ASSUME Processes, NEW p \in Procs, run[p].at # "ended", Others(p), Sound(run'[p]),
         run'[p].after = run[p].after
  PROVE  Processes'
<1>1. \A q \in Procs : run[q].at = "ended" => q # p /\ run'[q].at = "ended"
  BY DEF Others
<1>2. \A q \in Procs : run'[q].after = run[q].after /\ Sound(run'[q])
  BY DEF Others, Processes, Sound
<1>3. \A q \in Procs : run'[q].after \subseteq {w \in Procs : run'[w].at = "ended"}
  BY <1>1, <1>2 DEF Processes
<1> QED BY <1>2, <1>3 DEF Others, Processes, Sound

(* Processes holds after a start, and what the new process is.              *)
LEMMA StartMoved ==
  ASSUME Processes, NEW p \in Procs, NEW cmd, NEW at, Start(p, cmd, at), cmd \in CommandsAt(at),
         at \in {"resolve", "create", "package", "auth", "browser", "paste", "config"},
         at = "create" => cmd = "create"
  PROVE  /\ Processes' /\ Others(p) /\ ~Begun(p) /\ Sound(run'[p])
         /\ run'[p].cmd = cmd /\ run'[p].at = at /\ run'[p].exit = None
         /\ run'[p].made = <<>> /\ run'[p].after = {q \in Procs : run[q].at = "ended"}
         /\ run'[p].before = IF \E q \in Procs : Running(q) THEN <<>> ELSE [x \in Places |-> At(x)]
<1>1. PICK before : before = IF \E q \in Procs : Running(q) THEN <<>>
                             ELSE [x \in Places |-> At(x)]
  OBVIOUS
<1>2. PICK after : after = {q \in Procs : run[q].at = "ended"}
  OBVIOUS
<1>3. PICK s : s = [Fresh EXCEPT !.cmd = cmd, !.at = at, !.after = after, !.before = before]
  OBVIOUS
<1>4. run' = [run EXCEPT ![p] = s] /\ ~Begun(p)
  BY <1>1, <1>2, <1>3 DEF Start
<1>5. Others(p) /\ run'[p] = s
  BY <1>4, OneMoves
<1>6. /\ IsRun(s) /\ s.cmd = cmd /\ s.at = at /\ s.exit = None /\ s.made = <<>>
      /\ s.after = after /\ s.before = before
      /\ s.id = None /\ s.flags = {} /\ s.wait = FALSE /\ s.read = <<>>
  BY <1>3 DEF Fresh, IsRun
<1>7. cmd # None /\ at # "ended"
  BY EveryCommand DEF Commands, None
<1>8. KeyPart(s) /\ ChoicePart(s)
  BY <1>6 DEF KeyPart, ChoicePart, Writing
<1>9. Sound(s)
  BY <1>6, <1>7, <1>8 DEF Sound, Placed
<1>10. run[p].at # "ended"
  BY <1>4 DEF Begun, Processes, Sound, Placed, Fresh
<1>11. \A q \in Procs : run[q].at = "ended" => q # p /\ run'[q].at = "ended"
  BY <1>10, <1>5 DEF Others
<1>12. \A q \in Procs : Sound(run'[q])
  BY <1>5, <1>9 DEF Others, Processes, Sound
<1>13. \A q \in Procs : run'[q].after \subseteq {w \in Procs : run'[w].at = "ended"}
  BY <1>11, <1>5, <1>6, <1>2 DEF Processes, Others
<1>14. Processes'
  BY <1>5, <1>12, <1>13 DEF Others, Processes, Sound
<1> QED BY <1>1, <1>2, <1>4, <1>5, <1>6, <1>9, <1>14

(* No key is made, and no step of the writing of one is done.               *)
Calm(r, s) ==
  /\ s.made = r.made /\ (r.made # <<>> => s.file = r.file)
  /\ s.at # "ignore" /\ (s.exit = "ok" => s.made = <<>>)

(* p, which is running, does a step.                                         *)
Drives(p) ==
  /\ Running(p) /\ Processes' /\ Others(p)
  /\ run'[p].cmd = run[p].cmd /\ run'[p].after = run[p].after
  /\ Waiting(run[p], op[p]) => Waiting(run'[p], op'[p])

Moves(p, now) ==
  /\ Drives(p)
  /\ Calm(run[p], run'[p])
  /\ Snap(run[p], now) => Snap(run'[p], now)

(* A process that ends, without a key if it ends well, makes a calm step.   *)
LEMMA EndMoves ==
  ASSUME Processes, NEW p \in Procs, Running(p), NEW code \in {"ok", "failed", "killed"},
         End(p, code), code = "ok" => run[p].made = <<>>, NEW now
  PROVE  Moves(p, now)
<1>1. Others(p) /\ Ended(run[p], run'[p], code)
  BY Ends
<1>2. Sound(run[p]) /\ run[p].cmd # None /\ run[p].at # "ended"
  BY DEF Processes, Sound, Placed, Running, Fresh
<1>3. Sound(run'[p])
  BY <1>1, <1>2, EndSound
<1>4. Processes'
  BY <1>1, <1>2, <1>3, Moved DEF Ended
<1> QED BY <1>1, <1>4 DEF Moves, Drives, Ended, Calm, Snap, Waiting

(* A process that continues makes a calm step when its record says so.      *)
LEMMA GoesOn ==
  ASSUME Processes, NEW p \in Procs, Running(p), NEW what, Continue(p, what),
         "after" \notin DOMAIN what, "cmd" \notin DOMAIN what, Sound(run'[p]), NEW now,
         Calm(run[p], run'[p]), Snap(run[p], now) => Snap(run'[p], now),
         Waiting(run[p], op[p]) => Waiting(run'[p], op'[p])
  PROVE  Moves(p, now)
<1>1. Others(p) /\ run'[p].cmd = run[p].cmd /\ run'[p].after = run[p].after
  BY Goes DEF Becomes
<1>2. Processes'
  BY <1>1, Moved DEF Running
<1> QED BY <1>1, <1>2 DEF Moves, Drives

(* What a process is about depends on what it was told only.                *)
LEMMA SameMeaning ==
  ASSUME NEW r, NEW s, s.before = r.before, s.ref = r.ref
  PROVE  /\ Meant(s) = Meant(r)
         /\ s.cmd = r.cmd /\ s.file = r.file /\ s.flags = r.flags /\ s.dry = r.dry =>
              Named(s) = Named(r)
<1>1. Meant(s) = Meant(r)
  BY DEF Meant
<1> QED BY <1>1 DEF Named, NewApps, KeyPlaces

Shows(now) == \A x \in Places : now[x] = At(x)

(* No command is about the other lines of an env file.                      *)
LEMMA LinesNotNamed ==
  ASSUME NEW r, r.cmd \in {"regenerate", "create", "setup"}, NEW f
  PROVE  <<"lines", f>> \notin Named(r)
BY SpareAreIds DEF Named, KeyPlaces, NewApps, ConfigPlaces, Meant, Ids

(* What is at each place.                                                   *)
LEMMA AtPlaces ==
  /\ \A i \in Ids, x \in Fields : <<i, x>> \in Places /\ At(<<i, x>>) = integrations[i][x]
  /\ \A x \in {"apiKey", "workspaceId"} :
        <<"config", x>> \in Places /\ At(<<"config", x>>) = config[x]
  /\ \A x \in Scanned : <<"added", x>> \in Places /\ At(<<"added", x>>) = (x \in added)
  /\ \A f \in Files : /\ <<"keys", f>> \in Places /\ At(<<"keys", f>>) = env[f].keys
                      /\ <<"lines", f>> \in Places /\ At(<<"lines", f>>) = env[f].lines
                      /\ <<"ignored", f>> \in Places /\ At(<<"ignored", f>>) = (f \in ignored)
BY SpareAreIds DEF At, Places, Ids

(* One lemma for each group of actions: a calm step, which keeps Snap.  update,
   the flags.  *)
LEMMA FlagsMoved ==
  ASSUME Processes, Stores, NEW p \in Procs, ReadFlags(p), NEW now, Shows(now)
  PROVE  Moves(p, now)
<1>0. /\ Sound(run[p]) /\ run[p].at \in {"flags"} /\ Running(p)
      /\ run[p].cmd \in {"update"}
  BY DEF Processes, Running, Sound, Placed, CommandsAt, Fresh, ReadFlags
<1>1. ASSUME NEW code \in {"ok", "failed"}, End(p, code) PROVE Moves(p, now)
  BY <1>0, <1>1, EndMoves DEF Sound, Placed, KeyPart, Writing
<1>2. ASSUME NEW flags \in SUBSET {"name", "url", "drafts"},
               Continue(p, [at |-> IF flags \subseteq {"name"} THEN "patch" ELSE "read",
                            flags |-> flags])
      PROVE  Moves(p, now)
  <2>1. Becomes(run[p], run'[p], [at |-> IF flags \subseteq {"name"} THEN "patch" ELSE "read",
                                  flags |-> flags])
    BY <1>2, Goes
  <2>2. Sound(run'[p])
    BY <1>0, <1>2, <2>1 DEF Becomes, Sound, Placed, KeyPart, ChoicePart, Writing, CommandsAt,
        Fresh, UpdateFlags
  <2>3. Calm(run[p], run'[p]) /\ (Waiting(run[p], op[p]) => Waiting(run'[p], op'[p]))
    BY <1>0, <1>2, <2>1 DEF Becomes, Sound, Placed, KeyPart, CommandsAt, Writing, Calm, Waiting,
        Settled, None, UpdateFlags
  <2>4. Snap(run[p], now) => Snap(run'[p], now)
    BY <1>0, <1>2, <2>1, SameMeaning DEF Becomes, Writing, Snap, Touched, Targets, Sound,
        ChoicePart
  <2> QED BY <1>0, <1>2, <2>2, <2>3, <2>4, GoesOn
<1> QED BY <1>0, <1>1, <1>2 DEF ReadFlags

(* update, what is there.                                                   *)
LEMMA ExistingMoved ==
  ASSUME Processes, Stores, NEW p \in Procs, ReadExisting(p), NEW now, Shows(now)
  PROVE  Moves(p, now)
<1>0. /\ Sound(run[p]) /\ run[p].at \in {"read"} /\ Running(p)
      /\ run[p].cmd \in {"update"}
  BY DEF Processes, Running, Sound, Placed, CommandsAt, Fresh, ReadExisting
<1>1. ASSUME NEW code \in {"ok", "failed"}, End(p, code) PROVE Moves(p, now)
  BY <1>0, <1>1, EndMoves DEF Sound, Placed, KeyPart, Writing
<1>2. ASSUME NEW existing, NEW flags, NEW read, existing = integrations[run[p].id],
               flags = Sets(existing.type, run[p].flags), read = Merged(existing, flags),
               Continue(p, [at |-> "patch", flags |-> flags, read |-> read])
      PROVE  Moves(p, now)
  <2>1. Becomes(run[p], run'[p], [at |-> "patch", flags |-> flags, read |-> read])
    BY <1>2, Goes
  <2>0. /\ flags \subseteq UpdateFlags /\ read # <<>>
        /\ read = [x \in Opts |-> read[x]]
        /\ \A x \in flags \cap Opts : read[x] = New
    <3>1. run[p].flags \subseteq {"name", "url", "drafts"}
      BY <1>0 DEF Sound, ChoicePart
    <3> QED BY <1>2, <3>1 DEF Sets, Merged, UpdateFlags, Opts
  <2>2. Sound(run'[p])
    <3>1. Placed(run'[p])
      BY <1>0, <2>1 DEF Becomes, Sound, Placed, KeyPart, Writing, CommandsAt, Fresh
    <3>2. ChoicePart(run'[p])
      BY <1>0, <2>0, <2>1 DEF Becomes, Sound, ChoicePart
    <3> QED BY <3>1, <3>2 DEF Sound
  <2>3. Calm(run[p], run'[p]) /\ (Waiting(run[p], op[p]) => Waiting(run'[p], op'[p]))
    BY <1>0, <1>2, <2>1 DEF Becomes, Sound, Placed, KeyPart, CommandsAt, Writing, Calm, Waiting,
        Settled, None
  <2>4. ASSUME Snap(run[p], now) PROVE Snap(run'[p], now)
    <3>1. run[p].id \in Ids
      BY <1>0 DEF Sound, ChoicePart
    <3> DEFINE i == run[p].id
    <3>6. \A x \in Opts : <<i, x>> \in Places /\ At(<<i, x>>) = integrations[i][x]
      BY <3>1, AtPlaces DEF Opts, Fields
    <3>2. \A x \in Opts : <<i, x>> \in Places /\ now[<<i, x>>] = existing[x]
      BY <1>2, <3>6 DEF Shows
    <3>3. \A x \in Places : now[x] = run[p].before[x]
      BY <1>0, <2>4 DEF Snap, Touched, Writing
    <3>4. \A x \in Opts \ flags : read[x] = run[p].before[<<i, x>>]
      BY <1>2, <3>2, <3>3 DEF Merged
    <3>5. run[p].id \in Meant(run[p])
      BY <1>0, <2>4 DEF Snap, Targets
    <3> QED BY <1>0, <2>1, <3>3, <3>4, <3>5, SameMeaning DEF Becomes, Snap, Touched, Writing
  <2> QED BY <1>0, <1>2, <2>2, <2>3, <2>4, GoesOn
<1> QED BY <1>0, <1>1, <1>2 DEF ReadExisting

(* add, the choice of collections.                                          *)
LEMMA PickMoved ==
  ASSUME Processes, Stores, NEW p \in Procs, Choose(p) \/ Scan(p) \/ PickRefs(p),
         NEW now, Shows(now)
  PROVE  Moves(p, now)
<1>0. /\ Sound(run[p]) /\ run[p].at \in {"choose", "scan", "pick"} /\ Running(p)
      /\ run[p].cmd \in {"add"}
  BY DEF Processes, Running, Sound, Placed, CommandsAt, Fresh, Choose, Scan, PickRefs
<1>1. ASSUME NEW code \in {"ok", "failed"}, End(p, code) PROVE Moves(p, now)
  BY <1>0, <1>1, EndMoves DEF Sound, Placed, KeyPart, Writing
<1>2. ASSUME run[p].at = "choose", Continue(p, [at |-> "scan"])
      PROVE  Moves(p, now)
  <2>1. Becomes(run[p], run'[p], [at |-> "scan"])
    BY <1>2, Goes
  <2>2. Sound(run'[p])
    BY <1>0, <1>2, <2>1 DEF Becomes, Sound, Placed, KeyPart, ChoicePart, Writing, CommandsAt,
        Fresh
  <2>3. Calm(run[p], run'[p]) /\ (Waiting(run[p], op[p]) => Waiting(run'[p], op'[p]))
    BY <1>0, <1>2, <2>1 DEF Becomes, Sound, Placed, KeyPart, CommandsAt, Writing, Calm, Waiting,
        Settled, None
  <2>4. Snap(run[p], now) => Snap(run'[p], now)
    BY <1>0, <1>2, <2>1 DEF Becomes, Writing, Snap, Touched, Targets
  <2> QED BY <1>0, <1>2, <2>2, <2>3, <2>4, GoesOn
<1>3. ASSUME NEW refs, ~run[p].dry,
             Continue(p, [at |-> "add", flags |-> refs])
      PROVE  Moves(p, now)
  <2>1. Becomes(run[p], run'[p], [at |-> "add", flags |-> refs])
    BY <1>3, Goes
  <2>2. Sound(run'[p])
    BY <1>0, <1>3, <2>1 DEF Becomes, Sound, Placed, KeyPart, ChoicePart, Writing, CommandsAt,
        Fresh
  <2>3. Calm(run[p], run'[p]) /\ (Waiting(run[p], op[p]) => Waiting(run'[p], op'[p]))
    BY <1>0, <1>3, <2>1 DEF Becomes, Sound, Placed, KeyPart, CommandsAt, Writing, Calm, Waiting,
        Settled, None
  <2>4. Snap(run[p], now) => Snap(run'[p], now)
    BY <1>0, <1>3, <2>1 DEF Becomes, Writing, Snap, Touched, Targets
  <2> QED BY <1>0, <1>3, <2>2, <2>3, <2>4, GoesOn
<1>4. ASSUME NEW refs,
             Continue(p, [at |-> "pick", flags |-> refs])
      PROVE  Moves(p, now)
  <2>1. Becomes(run[p], run'[p], [at |-> "pick", flags |-> refs])
    BY <1>4, Goes
  <2>2. Sound(run'[p])
    BY <1>0, <1>4, <2>1 DEF Becomes, Sound, Placed, KeyPart, ChoicePart, Writing, CommandsAt,
        Fresh
  <2>3. Calm(run[p], run'[p]) /\ (Waiting(run[p], op[p]) => Waiting(run'[p], op'[p]))
    BY <1>0, <1>4, <2>1 DEF Becomes, Sound, Placed, KeyPart, CommandsAt, Writing, Calm, Waiting,
        Settled, None
  <2>4. Snap(run[p], now) => Snap(run'[p], now)
    BY <1>0, <1>4, <2>1 DEF Becomes, Writing, Snap, Touched, Targets
  <2> QED BY <1>0, <1>4, <2>2, <2>3, <2>4, GoesOn
<1>5. CASE Choose(p)
  BY <1>1, <1>2, <1>3, <1>5 DEF Choose
<1>6. CASE Scan(p) \/ PickRefs(p)
  BY <1>1, <1>3, <1>4, <1>6 DEF Scan, PickRefs
<1> QED BY <1>5, <1>6

(* setup, the package, the key for the service and the one that is there already. *)
LEMMA SetupMoved ==
  ASSUME Processes, Stores, NEW p \in Procs, PickPackage(p) \/ CheckAuth(p) \/ LookForKey(p),
         NEW now, Shows(now)
  PROVE  Moves(p, now)
<1>0. /\ Sound(run[p]) /\ run[p].at \in {"package", "auth", "look"} /\ Running(p)
      /\ run[p].cmd \in {"setup"}
  BY DEF Processes, Running, Sound, Placed, CommandsAt, Fresh, PickPackage, CheckAuth, LookForKey
<1>1. ASSUME NEW code \in {"ok", "failed"}, End(p, code) PROVE Moves(p, now)
  BY <1>0, <1>1, EndMoves DEF Sound, Placed, KeyPart, Writing
<1>2. ASSUME NEW at \in {"auth", "browser", "paste", "look", "list"},
             Continue(p, [at |-> at])
      PROVE  Moves(p, now)
  <2>1. Becomes(run[p], run'[p], [at |-> at])
    BY <1>2, Goes
  <2>2. Sound(run'[p])
    BY <1>0, <1>2, <2>1 DEF Becomes, Sound, Placed, KeyPart, ChoicePart, Writing, CommandsAt,
        Fresh
  <2>3. Calm(run[p], run'[p]) /\ (Waiting(run[p], op[p]) => Waiting(run'[p], op'[p]))
    BY <1>0, <1>2, <2>1 DEF Becomes, Sound, Placed, KeyPart, CommandsAt, Writing, Calm, Waiting,
        Settled, None
  <2>4. Snap(run[p], now) => Snap(run'[p], now)
    BY <1>0, <1>2, <2>1 DEF Becomes, Writing, Snap, Touched, Targets
  <2> QED BY <1>0, <1>2, <2>2, <2>3, <2>4, GoesOn
<1>3. ASSUME Continue(p, [at |-> "look", flags |-> {Environment}])
      PROVE  Moves(p, now)
  <2>1. Becomes(run[p], run'[p], [at |-> "look", flags |-> {Environment}])
    BY <1>3, Goes
  <2>2. Sound(run'[p])
    BY <1>0, <1>3, <2>1 DEF Becomes, Sound, Placed, KeyPart, ChoicePart, Writing, CommandsAt,
        Fresh
  <2>3. Calm(run[p], run'[p]) /\ (Waiting(run[p], op[p]) => Waiting(run'[p], op'[p]))
    BY <1>0, <1>3, <2>1 DEF Becomes, Sound, Placed, KeyPart, CommandsAt, Writing, Calm, Waiting,
        Settled, None
  <2>4. Snap(run[p], now) => Snap(run'[p], now)
    BY <1>0, <1>3, <2>1 DEF Becomes, Writing, Snap, Touched, Targets
  <2> QED BY <1>0, <1>3, <2>2, <2>3, <2>4, GoesOn
<1> QED BY <1>0, <1>1, <1>2, <1>3 DEF PickPackage, CheckAuth, LookForKey

(* setup, the choice of an app.                                             *)
LEMMA AppMoved ==
  ASSUME Processes, Stores, NEW p \in Procs, ListApps(p) \/ PickApp(p), NEW now, Shows(now)
  PROVE  Moves(p, now)
<1>0. /\ Sound(run[p]) /\ run[p].at \in {"list", "app"} /\ Running(p)
      /\ run[p].cmd \in {"setup"}
      /\ run[p].at = "app" => run[p].flags \subseteq Ids
  BY DEF Processes, Running, Sound, Placed, ChoicePart, CommandsAt, Fresh, ListApps, PickApp
<1>1. ASSUME NEW code \in {"ok", "failed"}, End(p, code) PROVE Moves(p, now)
  BY <1>0, <1>1, EndMoves DEF Sound, Placed, KeyPart, Writing
<1>2. ASSUME NEW file \in Files,
             Continue(p, [at |-> "create", file |-> file, flags |-> {}])
      PROVE  Moves(p, now)
  <2>1. Becomes(run[p], run'[p], [at |-> "create", file |-> file, flags |-> {}])
    BY <1>2, Goes
  <2>2. Sound(run'[p])
    BY <1>0, <1>2, <2>1 DEF Becomes, Sound, Placed, KeyPart, ChoicePart, Writing, CommandsAt,
        Fresh
  <2>3. Calm(run[p], run'[p]) /\ (Waiting(run[p], op[p]) => Waiting(run'[p], op'[p]))
    BY <1>0, <1>2, <2>1 DEF Becomes, Sound, Placed, KeyPart, CommandsAt, Writing, Calm, Waiting,
        Settled, None
  <2>4. Snap(run[p], now) => Snap(run'[p], now)
    BY <1>0, <1>2, <2>1 DEF Becomes, Writing, Snap, Touched, Targets
  <2> QED BY <1>0, <1>2, <2>2, <2>3, <2>4, GoesOn
<1>3. ASSUME NEW i \in Ids, NEW file \in Files,
             Continue(p, [at |-> "rotate", id |-> i, file |-> file, flags |-> {}])
      PROVE  Moves(p, now)
  <2>1. Becomes(run[p], run'[p], [at |-> "rotate", id |-> i, file |-> file, flags |-> {}])
    BY <1>3, Goes
  <2>2. Sound(run'[p])
    BY <1>0, <1>3, <2>1 DEF Becomes, Sound, Placed, KeyPart, ChoicePart, Writing, CommandsAt,
        Fresh
  <2>3. Calm(run[p], run'[p]) /\ (Waiting(run[p], op[p]) => Waiting(run'[p], op'[p]))
    BY <1>0, <1>3, <2>1 DEF Becomes, Sound, Placed, KeyPart, CommandsAt, Writing, Calm, Waiting,
        Settled, None
  <2>4. Snap(run[p], now) => Snap(run'[p], now)
    BY <1>0, <1>3, <2>1 DEF Becomes, Writing, Snap, Touched, Targets
  <2> QED BY <1>0, <1>3, <2>2, <2>3, <2>4, GoesOn
<1>4. ASSUME NEW offered \in SUBSET Ids,
             Continue(p, [at |-> "app", flags |-> offered])
      PROVE  Moves(p, now)
  <2>1. Becomes(run[p], run'[p], [at |-> "app", flags |-> offered])
    BY <1>4, Goes
  <2>2. Sound(run'[p])
    BY <1>0, <1>4, <2>1 DEF Becomes, Sound, Placed, KeyPart, ChoicePart, Writing, CommandsAt,
        Fresh
  <2>3. Calm(run[p], run'[p]) /\ (Waiting(run[p], op[p]) => Waiting(run'[p], op'[p]))
    BY <1>0, <1>4, <2>1 DEF Becomes, Sound, Placed, KeyPart, CommandsAt, Writing, Calm, Waiting,
        Settled, None
  <2>4. Snap(run[p], now) => Snap(run'[p], now)
    BY <1>0, <1>4, <2>1 DEF Becomes, Writing, Snap, Touched, Targets
  <2> QED BY <1>0, <1>4, <2>2, <2>3, <2>4, GoesOn
<1>5. CASE ListApps(p)
  BY <1>1, <1>2, <1>4, <1>5 DEF ListApps, Apps
<1>6. CASE PickApp(p)
  BY <1>0, <1>1, <1>2, <1>3, <1>6 DEF PickApp
<1> QED BY <1>5, <1>6

(* The env file is read.                                                    *)
LEMMA LoadMoved ==
  ASSUME Processes, Stores, NEW p \in Procs, LoadEnv(p), NEW now, Shows(now)
  PROVE  Moves(p, now)
<1>0. /\ Sound(run[p]) /\ run[p].at \in {"load"} /\ Running(p)
      /\ run[p].cmd \in {"regenerate", "create", "setup"}
  BY DEF Processes, Running, Sound, Placed, CommandsAt, Fresh, LoadEnv
<1>2. ASSUME NEW loaded, loaded = env[run[p].file],
               Continue(p, [at |-> "rename", read |-> loaded])
      PROVE  Moves(p, now)
  <2>1. Becomes(run[p], run'[p], [at |-> "rename", read |-> loaded])
    BY <1>2, Goes
  <2>0. /\ run[p].file \in Files
        /\ loaded = [keys |-> loaded.keys, lines |-> loaded.lines]
    BY <1>0, <1>2 DEF Sound, Placed, KeyPart, Writing, Stores
  <2>2. Sound(run'[p])
    BY <2>0, <1>0, <1>2, <2>1 DEF Becomes, Sound, Placed, KeyPart, ChoicePart, Writing,
        CommandsAt, Fresh
  <2>3. Calm(run[p], run'[p]) /\ (Waiting(run[p], op[p]) => Waiting(run'[p], op'[p]))
    BY <1>0, <1>2, <2>1 DEF Becomes, Sound, Placed, KeyPart, CommandsAt, Writing, Calm, Waiting,
        Settled, None
  <2>4. ASSUME Snap(run[p], now) PROVE Snap(run'[p], now)
    <3>1. Named(run'[p]) = Named(run[p]) /\ Meant(run'[p]) = Meant(run[p])
      BY <2>1, SameMeaning DEF Becomes
    <3>2. <<"lines", run[p].file>> \in Places /\ now[<<"lines", run[p].file>>] = loaded.lines
      BY <1>2, <2>0, AtPlaces DEF Shows
    <3>3. <<"lines", run[p].file>> \notin Named(run[p])
      BY <1>0, LinesNotNamed
    <3> QED BY <1>0, <2>1, <2>4, <3>1, <3>2, <3>3 DEF Becomes, Snap, Touched, Writing, Targets
  <2> QED BY <1>0, <1>2, <2>2, <2>3, <2>4, GoesOn
<1> QED BY <1>0, <1>2 DEF LoadEnv

(* login.                                                                   *)
LEMMA LoginMoved ==
  ASSUME Processes, Stores, NEW p \in Procs,
         Authorize(p) \/ ExchangeCode(p) \/ OpenerEnds(p), NEW now, Shows(now)
  PROVE  Moves(p, now)
<1>0. /\ Sound(run[p]) /\ run[p].at \in {"browser", "paste", "exchange", "opener"} /\ Running(p)
      /\ run[p].cmd \in {"login", "setup"}
  BY DEF Processes, Running, Sound, Placed, CommandsAt, Fresh, Authorize, ExchangeCode, OpenerEnds
<1>1. ASSUME NEW code \in {"ok", "failed"}, End(p, code) PROVE Moves(p, now)
  BY <1>0, <1>1, EndMoves DEF Sound, Placed, KeyPart, Writing
<1>2. ASSUME NEW wait,
               Continue(p, [at |-> "exchange", wait |-> wait])
      PROVE  Moves(p, now)
  <2>1. Becomes(run[p], run'[p], [at |-> "exchange", wait |-> wait])
    BY <1>2, Goes
  <2>2. Sound(run'[p])
    BY <1>0, <1>2, <2>1 DEF Becomes, Sound, Placed, KeyPart, ChoicePart, Writing, CommandsAt,
        Fresh
  <2>3. Calm(run[p], run'[p]) /\ (Waiting(run[p], op[p]) => Waiting(run'[p], op'[p]))
    BY <1>0, <1>2, <2>1 DEF Becomes, Sound, Placed, KeyPart, CommandsAt, Writing, Calm, Waiting,
        Settled, None
  <2>4. Snap(run[p], now) => Snap(run'[p], now)
    BY <1>0, <1>2, <2>1 DEF Becomes, Writing, Snap, Touched, Targets
  <2> QED BY <1>0, <1>2, <2>2, <2>3, <2>4, GoesOn
<1>3. ASSUME Continue(p, [at |-> "truncate", read |-> [apiKey |-> "token", workspaceId |-> None]])
      PROVE  Moves(p, now)
  <2>1. Becomes(run[p], run'[p], [at |-> "truncate", read |-> [apiKey |-> "token",
                                  workspaceId |-> None]])
    BY <1>3, Goes
  <2>2. Sound(run'[p])
    BY <1>0, <1>3, <2>1 DEF Becomes, Sound, Placed, KeyPart, ChoicePart, Writing, CommandsAt,
        Fresh
  <2>3. Calm(run[p], run'[p]) /\ (Waiting(run[p], op[p]) => Waiting(run'[p], op'[p]))
    BY <1>0, <1>3, <2>1 DEF Becomes, Sound, Placed, KeyPart, CommandsAt, Writing, Calm, Waiting,
        Settled, None
  <2>4. Snap(run[p], now) => Snap(run'[p], now)
    BY <1>0, <1>3, <2>1 DEF Becomes, Writing, Snap, Touched, Targets
  <2> QED BY <1>0, <1>3, <2>2, <2>3, <2>4, GoesOn
<1>4. ASSUME Continue(p, [at |-> "opener"])
      PROVE  Moves(p, now)
  <2>1. Becomes(run[p], run'[p], [at |-> "opener"])
    BY <1>4, Goes
  <2>2. Sound(run'[p])
    BY <1>0, <1>4, <2>1 DEF Becomes, Sound, Placed, KeyPart, ChoicePart, Writing, CommandsAt,
        Fresh
  <2>3. Calm(run[p], run'[p]) /\ (Waiting(run[p], op[p]) => Waiting(run'[p], op'[p]))
    BY <1>0, <1>4, <2>1 DEF Becomes, Sound, Placed, KeyPart, CommandsAt, Writing, Calm, Waiting,
        Settled, None
  <2>4. Snap(run[p], now) => Snap(run'[p], now)
    BY <1>0, <1>4, <2>1 DEF Becomes, Writing, Snap, Touched, Targets
  <2> QED BY <1>0, <1>4, <2>2, <2>3, <2>4, GoesOn
<1> QED BY <1>0, <1>1, <1>2, <1>3, <1>4 DEF Authorize, ExchangeCode, OpenerEnds, LoginConfig

(* logout and switch: the configuration is read.                            *)
LEMMA ConfigMoved ==
  ASSUME Processes, Stores, NEW p \in Procs, ReadConfig(p), NEW now, Shows(now)
  PROVE  Moves(p, now)
<1>0. /\ Sound(run[p]) /\ run[p].at \in {"config"} /\ Running(p)
      /\ run[p].cmd \in {"logout", "switch"}
  BY DEF Processes, Running, Sound, Placed, CommandsAt, Fresh, ReadConfig
<1>1. ASSUME NEW code \in {"ok", "failed"}, End(p, code) PROVE Moves(p, now)
  BY <1>0, <1>1, EndMoves DEF Sound, Placed, KeyPart, Writing
<1>2. ASSUME NEW key, NEW workspace,
             run[p].cmd = "switch" => workspace = run[p].id /\ key = config.apiKey,
             run[p].cmd = "logout" => workspace = config.workspaceId,
               Continue(p, [at |-> "truncate", read |-> [apiKey |-> key,
                            workspaceId |-> workspace]])
      PROVE  Moves(p, now)
  <2>1. Becomes(run[p], run'[p], [at |-> "truncate", read |-> [apiKey |-> key,
                                  workspaceId |-> workspace]])
    BY <1>2, Goes
  <2>2. Sound(run'[p])
    BY <1>0, <1>2, <2>1 DEF Becomes, Sound, Placed, KeyPart, ChoicePart, Writing, CommandsAt,
        Fresh
  <2>3. Calm(run[p], run'[p]) /\ (Waiting(run[p], op[p]) => Waiting(run'[p], op'[p]))
    BY <1>0, <1>2, <2>1 DEF Becomes, Sound, Placed, KeyPart, CommandsAt, Writing, Calm, Waiting,
        Settled, None
  <2>4. ASSUME Snap(run[p], now) PROVE Snap(run'[p], now)
    <3>1. \A x \in {"apiKey", "workspaceId"} :
            <<"config", x>> \in Places /\ now[<<"config", x>>] = config[x]
      BY AtPlaces DEF Shows
    <3>2. \A x \in Places : now[x] = run[p].before[x]
      BY <1>0, <2>4 DEF Snap, Touched, Writing
    <3> QED BY <1>0, <1>2, <2>1, <3>1, <3>2 DEF Becomes, Snap, Touched, Writing, Targets
  <2> QED BY <1>0, <1>2, <2>2, <2>3, <2>4, GoesOn
<1> QED BY <1>0, <1>1, <1>2 DEF ReadConfig, Stores

(* The sync commands.                                                       *)
LEMMA SyncMoved ==
  ASSUME Processes, Stores, NEW p \in Procs, Request(p) \/ Settle(p) \/ Sleep(p) \/ Poll(p),
         NEW now, Shows(now)
  PROVE  Moves(p, now)
<1>0. /\ Sound(run[p]) /\ run[p].at \in {"request", "wait", "poll"} /\ Running(p)
      /\ run[p].cmd \in {"sync"}
  BY DEF Processes, Running, Sound, Placed, CommandsAt, Fresh, Request, Settle, Sleep, Poll
<1>1. ASSUME NEW code \in {"ok", "failed"}, End(p, code) PROVE Moves(p, now)
  BY <1>0, <1>1, EndMoves DEF Sound, Placed, KeyPart, Writing
<1>2. ASSUME NEW status, NEW left, NEW delay, op'[p] = status,
               Continue(p, [at |-> "wait", wait |-> TRUE, status |-> status, left |-> left,
                            delay |-> delay])
      PROVE  Moves(p, now)
  <2>1. Becomes(run[p], run'[p], [at |-> "wait", wait |-> TRUE, status |-> status,
                                  left |-> left, delay |-> delay])
    BY <1>2, Goes
  <2>2. Sound(run'[p])
    BY <1>0, <1>2, <2>1 DEF Becomes, Sound, Placed, KeyPart, ChoicePart, Writing, CommandsAt,
        Fresh
  <2>3. Calm(run[p], run'[p]) /\ (Waiting(run[p], op[p]) => Waiting(run'[p], op'[p]))
    BY <1>0, <1>2, <2>1 DEF Becomes, Sound, Placed, KeyPart, CommandsAt, Writing, Calm, Waiting,
        Settled, None
  <2>4. Snap(run[p], now) => Snap(run'[p], now)
    BY <1>0, <1>2, <2>1 DEF Becomes, Writing, Snap, Touched, Targets
  <2> QED BY <1>0, <1>2, <2>2, <2>3, <2>4, GoesOn
<1>3. ASSUME NEW left, run[p].at = "wait", op' = op,
               Continue(p, [at |-> "poll", left |-> left])
      PROVE  Moves(p, now)
  <2>1. Becomes(run[p], run'[p], [at |-> "poll", left |-> left])
    BY <1>3, Goes
  <2>2. Sound(run'[p])
    BY <1>0, <1>3, <2>1 DEF Becomes, Sound, Placed, KeyPart, ChoicePart, Writing, CommandsAt,
        Fresh
  <2>3. Calm(run[p], run'[p]) /\ (Waiting(run[p], op[p]) => Waiting(run'[p], op'[p]))
    BY <1>0, <1>3, <2>1 DEF Becomes, Sound, Placed, KeyPart, CommandsAt, Writing, Calm, Waiting,
        Settled, None
  <2>4. Snap(run[p], now) => Snap(run'[p], now)
    BY <1>0, <1>3, <2>1 DEF Becomes, Writing, Snap, Touched, Targets
  <2> QED BY <1>0, <1>3, <2>2, <2>3, <2>4, GoesOn
<1>4. ASSUME NEW status, NEW delay, NEW retries, op'[p] = status,
               Continue(p, [at |-> "wait", status |-> status, delay |-> delay,
                            retries |-> retries])
      PROVE  Moves(p, now)
  <2>1. Becomes(run[p], run'[p], [at |-> "wait", status |-> status, delay |-> delay,
                                  retries |-> retries])
    BY <1>4, Goes
  <2>2. Sound(run'[p])
    BY <1>0, <1>4, <2>1 DEF Becomes, Sound, Placed, KeyPart, ChoicePart, Writing, CommandsAt,
        Fresh
  <2>3. Calm(run[p], run'[p]) /\ (Waiting(run[p], op[p]) => Waiting(run'[p], op'[p]))
    BY <1>0, <1>4, <2>1 DEF Becomes, Sound, Placed, KeyPart, CommandsAt, Writing, Calm, Waiting,
        Settled, None
  <2>4. Snap(run[p], now) => Snap(run'[p], now)
    BY <1>0, <1>4, <2>1 DEF Becomes, Writing, Snap, Touched, Targets
  <2> QED BY <1>0, <1>4, <2>2, <2>3, <2>4, GoesOn
<1>5. ASSUME NEW delay, NEW retries, run[p].at = "poll", op' = op,
               Continue(p, [at |-> "wait", delay |-> delay, retries |-> retries])
      PROVE  Moves(p, now)
  <2>1. Becomes(run[p], run'[p], [at |-> "wait", delay |-> delay, retries |-> retries])
    BY <1>5, Goes
  <2>2. Sound(run'[p])
    BY <1>0, <1>5, <2>1 DEF Becomes, Sound, Placed, KeyPart, ChoicePart, Writing, CommandsAt,
        Fresh
  <2>3. Calm(run[p], run'[p]) /\ (Waiting(run[p], op[p]) => Waiting(run'[p], op'[p]))
    BY <1>0, <1>5, <2>1 DEF Becomes, Sound, Placed, KeyPart, CommandsAt, Writing, Calm, Waiting,
        Settled, None
  <2>4. Snap(run[p], now) => Snap(run'[p], now)
    BY <1>0, <1>5, <2>1 DEF Becomes, Writing, Snap, Touched, Targets
  <2> QED BY <1>0, <1>5, <2>2, <2>3, <2>4, GoesOn
<1> QED BY <1>0, <1>1, <1>2, <1>3, <1>4, <1>5 DEF Request, Settle, Sleep, Poll, Answered,
    AcceptedCode, SettledCode, Stores, service, files

-----------------------------------------------------------------------------
(* What a reference of an integration resolves to is what it means.          *)
LEMMA FiniteRows == IsFiniteSet(IntegrationRows)
<1> DEFINE there == {i \in Ids : Exists(i)}
           Row(i) == [id |-> i, names |-> {integrations[i].name}]
           rows == [i \in there |-> Row(i)]
<1>1. IsFiniteSet(Ids)
  <2>1. IsFiniteSet({"i1"})
    BY FS_Singleton
  <2>2. IsFiniteSet({"i1"} \cup {"i2"})
    BY <2>1, FS_AddElement
  <2>3. {"i1", "i2"} = {"i1"} \cup {"i2"}
    OBVIOUS
  <2>4. IsFiniteSet({"i1", "i2"} \cup Spare)
    BY <2>2, <2>3, SpareAreIds, FS_Union
  <2> QED BY <2>4 DEF Ids
<1>2. IsFiniteSet(there)
  BY <1>1, FS_Subset
<1>3. rows \in Surjection(there, IntegrationRows)
  BY DEF Surjection, IntegrationRows
<1> QED BY <1>2, <1>3, FS_Surjection

(* What a reference of an integration resolves to is what it means.         *)
LEMMA ResolvedIsMeant ==
  ASSUME NEW s, NEW i \in ResolveUnique(IntegrationRows, s.ref),
         \A x \in Places : At(x) = s.before[x]
  PROVE  i \in Ids /\ i \in Meant(s)
<1> DEFINE rows == IntegrationRows
           byId == {r \in rows : r.id = s.ref}
           byName == {r \in rows : s.ref \in r.names}
           there(j) == s.before[<<j, "type">>] # None
           same(j) == there(j) /\ s.before[<<j, "name">>] = s.ref
<1>1. \A j \in Ids : /\ s.before[<<j, "type">>] = integrations[j].type
                     /\ s.before[<<j, "name">>] = integrations[j].name
  BY AtPlaces DEF Fields
<1>2. \A j \in Ids : there(j) <=> Exists(j)
  BY <1>1 DEF Exists
<1>3. \A r \in rows : /\ r.id \in Ids /\ Exists(r.id) /\ r.names = {integrations[r.id].name}
                      /\ r = [id |-> r.id, names |-> r.names]
  BY DEF IntegrationRows
<1>4. \A j \in Ids : Exists(j) => [id |-> j, names |-> {integrations[j].name}] \in rows
  BY DEF IntegrationRows
<1>5. i \in {r.id : r \in IF byId # {} THEN byId
                          ELSE IF Cardinality(byName) = 1 THEN byName ELSE {}}
  BY DEF ResolveUnique
<1> HIDE DEF rows
<1>6. CASE byId # {}
  <2>1. PICK r \in byId : i = r.id
    BY <1>5, <1>6
  <2>2. i = s.ref /\ i \in Ids /\ there(i)
    BY <2>1, <1>3, <1>2
  <2> QED BY <2>2 DEF Meant
<1>7. CASE byId = {}
  <2>1. Cardinality(byName) = 1 /\ \E r \in byName : i = r.id
    BY <1>5, <1>7
  <2>2. IsFiniteSet(byName)
    BY FiniteRows, FS_Subset DEF rows
  <2>3. PICK r : byName = {r}
    BY <2>1, <2>2, FS_Singleton
  <2>4. i = r.id /\ i \in Ids /\ same(i)
    BY <2>1, <2>3, <1>1, <1>2, <1>3
  <2>5. \A j \in Ids \ {i} : ~same(j)
    <3> SUFFICES ASSUME NEW j \in Ids \ {i}, same(j) PROVE FALSE
      OBVIOUS
    <3> DEFINE other == [id |-> j, names |-> {integrations[j].name}]
    <3>1. other \in byName
      BY <1>1, <1>2, <1>4
    <3>2. other = r
      BY <3>1, <2>3
    <3> QED BY <3>2, <2>4
  <2>6. ~(s.ref \in Ids /\ there(s.ref))
    <3> SUFFICES ASSUME s.ref \in Ids, there(s.ref) PROVE FALSE
      OBVIOUS
    <3>1. [id |-> s.ref, names |-> {integrations[s.ref].name}] \in byId
      BY <1>2, <1>4
    <3> QED BY <3>1, <1>7
  <2> QED BY <2>4, <2>5, <2>6 DEF Meant
<1> QED BY <1>6, <1>7

(* What a reference of an integration resolves to is an id.                 *)
LEMMA RowsAreIds ==
  ASSUME NEW ref, NEW i \in ResolveUnique(IntegrationRows, ref)
  PROVE  i \in Ids
<1>1. \A r \in IntegrationRows : r.id \in Ids
  BY DEF IntegrationRows
<1>2. \E r \in IntegrationRows : i = r.id
  <2> DEFINE byId == {r \in IntegrationRows : r.id = ref}
             byName == {r \in IntegrationRows : ref \in r.names}
             rows == IF byId # {} THEN byId ELSE IF Cardinality(byName) = 1 THEN byName ELSE {}
  <2>1. i \in {r.id : r \in rows}
    BY DEF ResolveUnique
  <2>2. rows \subseteq IntegrationRows
    OBVIOUS
  <2> HIDE DEF rows
  <2> QED BY <2>1, <2>2
<1> QED BY <1>1, <1>2

(* A reference is resolved.                                                 *)
LEMMA ResolveMoved ==
  ASSUME Processes, NEW p \in Procs, Resolve(p), NEW now, Shows(now)
  PROVE  Moves(p, now)
<1>0. /\ Sound(run[p]) /\ run[p].at = "resolve" /\ Running(p)
      /\ run[p].cmd \in {"update", "delete", "add", "regenerate", "switch", "sync"}
  BY DEF Processes, Running, Sound, Placed, CommandsAt, Fresh, Resolve
<1>1. ASSUME NEW code \in {"ok", "failed"}, End(p, code) PROVE Moves(p, now)
  BY <1>0, <1>1, EndMoves DEF Sound, Placed, KeyPart, Writing
<1>2. ASSUME NEW ref, NEW dry, NEW file, run[p].cmd = "regenerate" => file \in Files,
             NEW i \in ResolveUnique(RowsFor(run[p].cmd), ref),
             Continue(p, [at |-> Then(run[p].cmd), ref |-> ref, id |-> i, dry |-> dry,
                          file |-> file])
      PROVE  Moves(p, now)
  <2>1. Becomes(run[p], run'[p], [at |-> Then(run[p].cmd), ref |-> ref, id |-> i, dry |-> dry,
                                  file |-> file])
    BY <1>2, Goes
  <2>2. /\ IsRun(run'[p]) /\ run'[p].at = Then(run[p].cmd) /\ run'[p].id = i /\ run'[p].file = file
        /\ run'[p].ref = ref
        /\ run'[p].cmd = run[p].cmd /\ run'[p].exit = run[p].exit /\ run'[p].made = run[p].made
        /\ run'[p].flags = run[p].flags /\ run'[p].wait = run[p].wait /\ run'[p].read = run[p].read
        /\ run'[p].before = run[p].before
    BY <2>1 DEF Becomes
  <2>3. run[p].cmd \in {"update", "delete", "add", "regenerate"} =>
          i \in ResolveUnique(IntegrationRows, ref) /\ i \in Ids
    BY <1>2, RowsAreIds DEF RowsFor
  <2>4. Sound(run'[p])
    <3>1. run'[p].at # "ended" /\ run'[p].cmd # None /\ run'[p].cmd \in CommandsAt(run'[p].at)
      BY <1>0, <2>2 DEF CommandsAt, Then, None
    <3>2. run[p].made = <<>> /\ run[p].exit = None /\ run[p].flags = {} /\ run[p].read = <<>>
          /\ run[p].wait = FALSE
      BY <1>0 DEF Sound, Placed, KeyPart, ChoicePart, Writing
    <3>3. KeyPart(run'[p])
      BY <1>0, <1>2, <2>2, <2>3, <3>2 DEF KeyPart, Writing, Then
    <3>4. ChoicePart(run'[p])
      BY <1>0, <2>2, <2>3, <3>2 DEF ChoicePart, Then
    <3> QED BY <2>2, <3>1, <3>2, <3>3, <3>4 DEF Sound, Placed
  <2>5. Calm(run[p], run'[p]) /\ (Waiting(run[p], op[p]) => Waiting(run'[p], op'[p]))
    BY <1>0, <2>2 DEF Sound, Placed, KeyPart, Writing, Calm, Waiting, Then, None
  <2>6. ASSUME Snap(run[p], now) PROVE Snap(run'[p], now)
    <3>1. \A x \in Places : now[x] = run[p].before[x]
      BY <1>0, <2>6 DEF Snap, Touched, Writing
    <3>2. run[p].cmd \in {"update", "delete", "regenerate"} => i \in Meant(run'[p])
      BY <2>2, <2>3, <3>1, ResolvedIsMeant DEF Shows
    <3>3. /\ run[p].read = <<>>
          /\ run'[p].at \in {"flags", "rotate", "config", "request", "choose", "delete"}
      BY <1>0, <2>2 DEF Sound, ChoicePart, Then
    <3> QED BY <1>0, <2>2, <3>1, <3>2, <3>3 DEF Snap, Touched, Writing
  <2> QED BY <1>0, <1>2, <2>4, <2>5, <2>6, GoesOn
<1>3. \E ref \in RefsFor(run[p].cmd), dry \in BOOLEAN,
         file \in IF run[p].cmd = "regenerate" THEN Files ELSE {None} :
        \/ End(p, "failed") \/ End(p, "ok")
        \/ \E i \in ResolveUnique(RowsFor(run[p].cmd), ref) :
             Continue(p, [at |-> Then(run[p].cmd), ref |-> ref, id |-> i, dry |-> dry,
                          file |-> file])
  BY DEF Resolve
<1> QED BY <1>1, <1>2, <1>3
-----------------------------------------------------------------------------
(* The other steps: those that end a process, and those that change a place. *)
LEMMA EndsMoved ==
  ASSUME Processes, NEW p \in Procs, Running(p),
         \/ Kill(p) \/ Fail(p) \/ Unauthorized(p) \/ LoginTimesOut(p) \/ Expire(p)
         \/ Patch(p) \/ Delete(p) \/ Add(p),
         NEW now
  PROVE  Moves(p, now)
<1>1. ASSUME NEW code \in {"failed", "killed"}, End(p, code) PROVE Moves(p, now)
  BY <1>1, EndMoves
<1>2. ASSUME run[p].at \in {"patch", "delete", "add"}, End(p, "ok") PROVE Moves(p, now)
  BY <1>2, EndMoves DEF Processes, Sound, Placed, KeyPart, Writing
<1>3. CASE Kill(p) \/ Fail(p) \/ Unauthorized(p) \/ LoginTimesOut(p) \/ Expire(p)
  BY <1>1, <1>3 DEF Kill, Fail, Unauthorized, LoginTimesOut, Expire
<1>4. CASE Patch(p) \/ Delete(p) \/ Add(p)
  BY <1>1, <1>2, <1>4 DEF Patch, Delete, Add, Answered
<1> QED BY <1>3, <1>4

(* The two that write the configuration.                                    *)
LEMMA WriteConfigMoved ==
  ASSUME Processes, Stores, NEW p \in Procs, TruncateConfig(p) \/ FillConfig(p)
  PROVE  Drives(p) /\ Calm(run[p], run'[p])
<1>0. /\ Sound(run[p]) /\ run[p].at \in {"truncate", "fill"} /\ Running(p)
      /\ run[p].cmd \in {"login", "setup", "logout", "switch"}
  BY DEF Processes, Running, Sound, Placed, CommandsAt, Fresh, TruncateConfig, FillConfig
<1>1. CASE TruncateConfig(p)
  <2>1. Becomes(run[p], run'[p], [at |-> "fill"])
    BY <1>1, Goes DEF TruncateConfig
  <2>2. Sound(run'[p])
    BY <1>0, <1>1, <2>1 DEF Becomes, Sound, Placed, KeyPart, ChoicePart, Writing, CommandsAt,
        Fresh
  <2>3. Calm(run[p], run'[p]) /\ ~(run'[p].at \in {"wait", "poll"})
    BY <1>0, <2>1 DEF Becomes, Sound, Placed, KeyPart, Writing, Calm, None
  <2>4. Others(p) /\ run'[p].cmd = run[p].cmd /\ run'[p].after = run[p].after
    BY <1>1, <2>1, Goes DEF TruncateConfig, Becomes
  <2> QED BY <1>0, <2>2, <2>3, <2>4, Moved DEF Drives, Running, Waiting
<1>2. CASE FillConfig(p) /\ run[p].cmd # "setup"
  <2>1. End(p, "ok") /\ run[p].made = <<>>
    BY <1>0, <1>2 DEF FillConfig, Sound, Placed, KeyPart, Writing
  <2>2. Moves(p, config)
    BY <1>0, <2>1, EndMoves
  <2> QED BY <2>2 DEF Moves
<1>3. CASE FillConfig(p) /\ run[p].cmd = "setup"
  <2>1. Becomes(run[p], run'[p], [at |-> "look", read |-> <<>>])
    BY <1>3, Goes DEF FillConfig
  <2>2. Sound(run'[p])
    BY <1>0, <1>3, <2>1 DEF Becomes, Sound, Placed, KeyPart, ChoicePart, Writing, CommandsAt,
        Fresh
  <2>3. Calm(run[p], run'[p]) /\ ~(run'[p].at \in {"wait", "poll"})
    BY <1>0, <2>1 DEF Becomes, Sound, Placed, KeyPart, Writing, Calm, None
  <2>4. Others(p) /\ run'[p].cmd = run[p].cmd /\ run'[p].after = run[p].after
    BY <1>3, <2>1, Goes DEF FillConfig, Becomes
  <2> QED BY <1>0, <2>2, <2>3, <2>4, Moved DEF Drives, Running, Waiting
<1> QED BY <1>1, <1>2, <1>3

(* p has the key that the service has made, or its answer is lost.           *)
Receives(p, i, n) ==
  /\ Drives(p) /\ run[p].at \in {"create", "rotate"} /\ run'[p].made = <<i, n>>
  /\ run'[p].before = run[p].before \/ run'[p].before = <<>>
  /\ \/ /\ run'[p].at = "load" /\ run'[p].exit = None
        /\ run'[p].before = run[p].before /\ run'[p].id = run[p].id
        /\ run'[p].ref = run[p].ref /\ run'[p].flags = run[p].flags /\ run'[p].dry = run[p].dry
     \/ run'[p].at = "ended" /\ run'[p].exit = "failed"

(* A key is received or lost.                                               *)
LEMMA Received ==
  ASSUME Processes, NEW p \in Procs, run[p].at \in {"create", "rotate"},
         NEW i \in Ids, NEW n \in Nat, NEW file \in Files, Receive(p, <<i, n>>, file)
  PROVE  /\ Receives(p, i, n)
         /\ run'[p].file = file
<1>0. /\ IsRun(run[p]) /\ Sound(run[p]) /\ Running(p)
      /\ run[p].cmd \in {"regenerate", "create", "setup"} /\ run[p].exit = None
  BY DEF Processes, Running, Sound, Placed, CommandsAt, Fresh
<1>1. PICK key : key = <<i, n>>
  OBVIOUS
<1>2. key \in Ids \X Nat /\ key # <<>>
  BY <1>1
<1>3. PICK r : r = With(run[p], [made |-> key, file |-> file])
  OBVIOUS
<1>4. Becomes(run[p], r, [made |-> key, file |-> file])
  BY <1>0, <1>3, WithFields
<1>5. /\ IsRun(r) /\ r.cmd = run[p].cmd /\ r.at = run[p].at /\ r.exit = None
      /\ r.after = run[p].after /\ r.before = run[p].before /\ r.id = run[p].id
      /\ r.ref = run[p].ref /\ r.flags = run[p].flags /\ r.dry = run[p].dry
      /\ r.made = key /\ r.file = file
  BY <1>0, <1>4 DEF Becomes
<1>6. CASE run' = [run EXCEPT ![p] = With(r, [at |-> "load"])]
  <2>1. PICK s : s = With(r, [at |-> "load"])
    OBVIOUS
  <2>2. Becomes(r, s, [at |-> "load"])
    BY <1>5, <2>1, WithFields
  <2>3. Others(p) /\ run'[p] = s
    BY <1>6, <2>1, OneMoves
  <2>4. /\ IsRun(s) /\ s.at = "load" /\ s.cmd = run[p].cmd /\ s.exit = None
        /\ s.after = run[p].after /\ s.before = run[p].before /\ s.id = run[p].id
        /\ s.ref = run[p].ref /\ s.flags = run[p].flags /\ s.dry = run[p].dry
        /\ s.made = key /\ s.file = file
    BY <1>5, <2>2 DEF Becomes
  <2>5. KeyPart(s) /\ ChoicePart(s)
    BY <2>4, <1>2 DEF KeyPart, ChoicePart, Writing
  <2>6. Sound(s)
    BY <1>0, <2>4, <2>5 DEF Sound, Placed, CommandsAt, None
  <2>7. Processes'
    BY <1>0, <2>3, <2>4, <2>6, Moved DEF Running
  <2> QED BY <1>0, <1>1, <2>3, <2>4, <2>7 DEF Receives, Drives, Waiting
<1>7. CASE run' = [run EXCEPT ![p] = Stopped(r, "failed")]
  <2>1. PICK s : s = Stopped(r, "failed")
    OBVIOUS
  <2>2. Ended(r, s, "failed")
    BY <1>5, <2>1, StoppedFields
  <2>3. Others(p) /\ run'[p] = s
    BY <1>7, <2>1, OneMoves
  <2>4. /\ IsRun(s) /\ s.at = "ended" /\ s.cmd = run[p].cmd /\ s.exit = "failed"
        /\ s.after = run[p].after /\ s.before = <<>> /\ s.made = key /\ s.file = file
    BY <1>5, <2>2 DEF Ended
  <2>5. KeyPart(s) /\ ChoicePart(s)
    BY <2>4, <1>2 DEF KeyPart, ChoicePart, Writing
  <2>6. Sound(s)
    BY <1>0, <2>4, <2>5, EveryCommand DEF Sound, Placed, CommandsAt, None, Commands
  <2>7. Processes'
    BY <1>0, <2>3, <2>4, <2>6, Moved DEF Running
  <2> QED BY <1>0, <1>1, <2>3, <2>4, <2>7 DEF Receives, Drives, Waiting
<1> QED BY <1>1, <1>3, <1>6, <1>7 DEF Receive

(* A key has been made for i, which was not there or is the one p is about.   *)
MakesKey(p, i, n) ==
  /\ Receives(p, i, n) /\ run'[p].file \in Files
  /\ \E row : /\ integrations' = [integrations EXCEPT ![i] = row]
              /\ row = [x \in Fields |-> row[x]] /\ row.type = "app" /\ row.key = n
              /\ \/ ~Exists(i) /\ run[p].at = "create"
                 \/ /\ i = run[p].id /\ run[p].at = "rotate"
                    /\ run'[p].file = run[p].file
                    /\ \A x \in Fields \ {"key"} : row[x] = integrations[i][x]

(* CreateApp and Rotate make a key, or end the process.                     *)
LEMMA KeyMade ==
  ASSUME Processes, Stores, NEW p \in Procs, CreateApp(p) \/ Rotate(p), NEW now
  PROVE  \/ Moves(p, now) /\ UNCHANGED integrations
         \/ \E i \in Ids, n \in Nat : MakesKey(p, i, n)
<1>0. /\ IsRun(run[p]) /\ Sound(run[p]) /\ Running(p) /\ run[p].at \in {"create", "rotate"}
      /\ run[p].cmd \in {"regenerate", "create", "setup"} /\ run[p].made = <<>>
  BY DEF Processes, Running, Sound, Placed, CommandsAt, Fresh, KeyPart, Writing, CreateApp, Rotate
<1>1. ASSUME NEW code \in {"ok", "failed"}, End(p, code) PROVE Moves(p, now)
  BY <1>0, <1>1, EndMoves
<1>6. run[p].at = "create" => run[p].cmd = "create" \/ run[p].file \in Files
  BY <1>0 DEF Sound, Placed, CommandsAt, KeyPart, None
<1>2. CASE Rotate(p) /\ run[p].id \in Apps
  <2> DEFINE i == run[p].id
             n == integrations[i].key
             row == [integrations[i] EXCEPT !.key = n + 1]
  <2>1. i \in Ids /\ n \in Nat /\ run[p].file \in Files
    BY <1>0, <1>2 DEF Rotate, Apps, Stores, Sound, Placed, KeyPart
  <2>2. integrations' = [integrations EXCEPT ![i] = row] /\ Receive(p, <<i, n + 1>>, run[p].file)
    BY <1>2 DEF Rotate
  <2>3. Receives(p, i, n + 1) /\ run'[p].file = run[p].file
    BY <1>0, <2>1, <2>2, Received
  <2>4. /\ row = [x \in Fields |-> row[x]] /\ row.type = "app" /\ row.key = n + 1
        /\ \A x \in Fields \ {"key"} : row[x] = integrations[i][x]
    BY <1>2, <2>1 DEF Stores, Fields, Apps
  <2> HIDE DEF i, n, row
  <2>5. i = run[p].id
    BY DEF i
  <2>6. run[p].at = "rotate"
    BY <1>2 DEF Rotate
  <2>7. n + 1 \in Nat
    BY <2>1
  <2>8. MakesKey(p, i, n + 1)
    BY <2>1, <2>2, <2>3, <2>4, <2>5, <2>6 DEF MakesKey
  <2> QED BY <2>1, <2>7, <2>8
<1>3. CASE Rotate(p) /\ run[p].id \notin Apps
  BY <1>1, <1>3 DEF Rotate
<1>4. CASE CreateApp(p) /\ ~UNCHANGED integrations
  <2> DEFINE i == CHOOSE j \in Spare : ~Exists(j)
             row == [Gone EXCEPT !.name = "app", !.type = "app", !.key = 1]
  <2>1. i \in Ids /\ ~Exists(i)
    BY <1>4 DEF CreateApp, Ids
  <2>2. integrations' = [integrations EXCEPT ![i] = row]
    BY <1>4 DEF CreateApp
  <2>7. \E file \in IF run[p].cmd = "create" THEN Files ELSE {run[p].file} :
          Receive(p, <<i, 1>>, file)
    BY <1>4 DEF CreateApp
  <2>8. run[p].cmd = "create" \/ run[p].file \in Files
    BY <1>0, <1>6, <1>4 DEF CreateApp
  <2>3. PICK file \in Files : Receive(p, <<i, 1>>, file)
    BY <2>7, <2>8
  <2>4. row = [x \in Fields |-> row[x]] /\ row.type = "app" /\ row.key = 1
    BY DEF Gone, Fields
  <2>5. run[p].at = "create"
    BY <1>4 DEF CreateApp
  <2> HIDE DEF i, row
  <2>6. Receives(p, i, 1) /\ run'[p].file = file
    BY <1>0, <2>1, <2>3, Received
  <2> QED BY <2>1, <2>2, <2>3, <2>4, <2>5, <2>6 DEF MakesKey
<1>5. CASE CreateApp(p) /\ UNCHANGED integrations
  <2>1. CASE End(p, "ok")
    BY <1>1, <1>5, <2>1
  <2>2. CASE ~End(p, "ok")
    <3> DEFINE i == CHOOSE j \in Spare : ~Exists(j)
               row == [Gone EXCEPT !.name = "app", !.type = "app", !.key = 1]
    <3>1. i \in Ids /\ ~Exists(i) /\ integrations' = [integrations EXCEPT ![i] = row]
      BY <1>5, <2>2 DEF CreateApp, Ids
    <3>2. row.type = "app"
      BY DEF Gone, Fields
    <3> HIDE DEF i, row
    <3>3. integrations'[i] = row
      BY <3>1 DEF Stores
    <3> QED BY <1>5, <3>1, <3>2, <3>3 DEF Exists, None
  <2> QED BY <2>1, <2>2
<1> QED BY <1>2, <1>3, <1>4, <1>5

(* The env file holds the key of p.                                          *)
Replaces(p) ==
  /\ Drives(p) /\ run[p].at = "rename" /\ run'[p].at = "ignore" /\ run'[p].exit = None
  /\ run'[p].made = run[p].made /\ run'[p].file = run[p].file /\ run'[p].read = <<>>
  /\ run'[p].before = run[p].before /\ run'[p].id = run[p].id
  /\ run'[p].ref = run[p].ref /\ run'[p].flags = run[p].flags /\ run'[p].dry = run[p].dry
  /\ run[p].made # <<>> /\ run[p].file \in Files
  /\ env' = [env EXCEPT ![run[p].file] = [keys |-> <<run[p].made>>, lines |-> run[p].read.lines]]

(* ReplaceEnv.                                                              *)
LEMMA EnvReplaced ==
  ASSUME Processes, NEW p \in Procs, ReplaceEnv(p)
  PROVE  Replaces(p)
<1>0. /\ Sound(run[p]) /\ Running(p) /\ run[p].at = "rename" /\ run[p].exit = None
      /\ run[p].cmd \in {"regenerate", "create", "setup"}
      /\ run[p].made # <<>> /\ run[p].file \in Files
  BY DEF Processes, Running, Sound, Placed, CommandsAt, Fresh, KeyPart, Writing, ReplaceEnv
<1>1. Others(p) /\ Becomes(run[p], run'[p], [at |-> "ignore", read |-> <<>>])
  BY Goes DEF ReplaceEnv
<1>2. /\ IsRun(run'[p]) /\ run'[p].cmd = run[p].cmd /\ run'[p].at = "ignore"
      /\ run'[p].exit = None /\ run'[p].after = run[p].after /\ run'[p].before = run[p].before
      /\ run'[p].id = run[p].id /\ run'[p].ref = run[p].ref /\ run'[p].flags = run[p].flags
      /\ run'[p].dry = run[p].dry /\ run'[p].made = run[p].made
      /\ run'[p].file = run[p].file /\ run'[p].read = <<>>
  BY <1>0, <1>1 DEF Becomes
<1>3. KeyPart(run'[p]) /\ ChoicePart(run'[p])
  BY <1>0, <1>2 DEF KeyPart, ChoicePart, Writing, Sound, Placed
<1>4. Sound(run'[p])
  BY <1>0, <1>2, <1>3 DEF Sound, Placed, CommandsAt, None
<1>5. Processes'
  BY <1>0, <1>1, <1>2, <1>4, Moved
<1>6. PICK loaded : loaded = run[p].read
  OBVIOUS
<1>7. loaded = [keys |-> loaded.keys, lines |-> loaded.lines]
  BY <1>0, <1>6 DEF Sound, Placed, KeyPart
<1>8. [loaded EXCEPT !.keys = Rewritten(loaded.keys, run[p].made)]
        = [keys |-> <<run[p].made>>, lines |-> loaded.lines]
  BY <1>7 DEF Rewritten
<1>9. env' = [env EXCEPT ![run[p].file] = [keys |-> <<run[p].made>>, lines |-> run[p].read.lines]]
  BY <1>6, <1>8 DEF ReplaceEnv
<1> QED BY <1>0, <1>1, <1>2, <1>5, <1>9 DEF Replaces, Drives, Waiting

(* The command that wrote a key has done all it was asked for.                *)
Covers(p) ==
  /\ Drives(p) /\ run[p].at = "ignore" /\ Ended(run[p], run'[p], "ok")
  /\ run[p].cmd \in {"regenerate", "create", "setup"}
  /\ run[p].made # <<>> /\ run[p].file \in Files

(* EnsureGitignore.                                                         *)
LEMMA GitignoreCovered ==
  ASSUME Processes, NEW p \in Procs, EnsureGitignore(p)
  PROVE  Covers(p)
<1>0. /\ Sound(run[p]) /\ Running(p) /\ run[p].at = "ignore" /\ run[p].cmd # None
      /\ run[p].cmd \in {"regenerate", "create", "setup"}
      /\ run[p].made # <<>> /\ run[p].file \in Files
  BY DEF Processes, Running, Sound, Placed, CommandsAt, Fresh, KeyPart, Writing,
      EnsureGitignore, None
<1>1. Others(p) /\ Ended(run[p], run'[p], "ok")
  BY Ends DEF EnsureGitignore
<1>2. Sound(run'[p])
  BY <1>0, <1>1, EndSound
<1>3. Processes'
  BY <1>0, <1>1, <1>2, Moved DEF Ended
<1> QED BY <1>0, <1>1, <1>3 DEF Covers, Drives, Ended, Waiting

-----------------------------------------------------------------------------
(* A step leaves the places alone, changes a field of the service or the      *)
(* configuration, or does its part of the writing of a key.                   *)
Asks(p) == op' = op \/ \E status : op' = [op EXCEPT ![p] = status]
Quiet(p) == UNCHANGED <<integrations, added, files>> /\ Asks(p)

Serves(p) == Patch(p) \/ Delete(p) \/ Add(p)
Configures(p) == TruncateConfig(p) \/ FillConfig(p)
Makes(p) == UNCHANGED <<added, op, files>> /\ \E i \in Ids, n \in Nat : MakesKey(p, i, n)
Writes(p) == Replaces(p) /\ UNCHANGED <<service, config, ignored>>
Closes(p) ==
  /\ Covers(p) /\ UNCHANGED <<service, config, env>>
  /\ ignored' = ignored \cup ({run[p].file} \ Outside)

Acts(p) == Step(p) \/ Awaits(p) \/ Kill(p)

(* Every step of a process is of one of these kinds.                        *)
LEMMA EveryStep ==
  ASSUME Processes, Stores, NEW p \in Procs, Acts(p), NEW now, Shows(now)
  PROVE  \/ Moves(p, now) /\ (Quiet(p) \/ Serves(p))
         \/ Drives(p) /\ Calm(run[p], run'[p]) /\ Configures(p)
         \/ Makes(p) \/ Writes(p) \/ Closes(p)
<1>1. CASE \/ Resolve(p) \/ ReadFlags(p) \/ ReadExisting(p) \/ Choose(p) \/ Scan(p) \/ PickRefs(p)
           \/ PickPackage(p) \/ CheckAuth(p) \/ LookForKey(p) \/ ListApps(p) \/ PickApp(p)
           \/ LoadEnv(p) \/ Authorize(p) \/ ExchangeCode(p) \/ OpenerEnds(p) \/ ReadConfig(p)
  <2>1. Moves(p, now)
    BY <1>1, ResolveMoved, FlagsMoved, ExistingMoved, PickMoved, SetupMoved, AppMoved,
       LoadMoved, LoginMoved, ConfigMoved
  <2>2. Quiet(p)
    BY <1>1 DEF Resolve, ReadFlags, ReadExisting, Choose, Scan, PickRefs, PickPackage, CheckAuth,
       LookForKey, ListApps, PickApp, LoadEnv, Authorize, ExchangeCode, OpenerEnds, ReadConfig,
       Quiet, Asks, service
  <2> QED BY <2>1, <2>2
<1>2. CASE Request(p) \/ Settle(p) \/ Sleep(p) \/ Poll(p)
  <2>1. Moves(p, now)
    BY <1>2, SyncMoved
  <2>2. Quiet(p)
    BY <1>2 DEF Request, Settle, Sleep, Poll, Quiet, Asks, service
  <2> QED BY <2>1, <2>2
<1>3. CASE Kill(p) \/ Fail(p) \/ Unauthorized(p) \/ LoginTimesOut(p) \/ Expire(p)
  <2>1. Running(p)
    BY <1>3 DEF Kill, Fail, Unauthorized, LoginTimesOut, Expire, Running, Requests
  <2>2. Moves(p, now)
    BY <1>3, <2>1, EndsMoved
  <2>3. Quiet(p)
    BY <1>3 DEF Kill, Fail, Unauthorized, LoginTimesOut, Expire, Quiet, Asks, service
  <2> QED BY <2>2, <2>3
<1>4. CASE Serves(p)
  <2>1. Running(p)
    BY <1>4 DEF Serves, Patch, Delete, Add, Running
  <2> QED BY <1>4, <2>1, EndsMoved DEF Serves
<1>5. CASE Configures(p)
  BY <1>5, WriteConfigMoved DEF Configures
<1>6. CASE CreateApp(p) \/ Rotate(p)
  <2>1. UNCHANGED <<added, op, files>>
    BY <1>6 DEF CreateApp, Rotate
  <2>2. CASE Moves(p, now) /\ UNCHANGED integrations
    BY <2>1, <2>2 DEF Quiet, Asks
  <2>3. CASE \E i \in Ids, n \in Nat : MakesKey(p, i, n)
    BY <2>1, <2>3 DEF Makes
  <2> QED BY <1>6, <2>2, <2>3, KeyMade
<1>7. CASE ReplaceEnv(p)
  BY <1>7, EnvReplaced DEF Writes, ReplaceEnv
<1>8. CASE EnsureGitignore(p)
  BY <1>8, GitignoreCovered DEF Closes, EnsureGitignore
<1> QED BY <1>1, <1>2, <1>3, <1>4, <1>5, <1>6, <1>7, <1>8
        DEF Acts, Step, Awaits, Serves, Configures

(* The service stays well-formed under update, delete and add, and no key changes.*)
LEMMA ServesStores ==
  ASSUME Processes, Stores, NEW p \in Procs, Serves(p)
  PROVE  /\ UNCHANGED files /\ op' = op /\ Stores'
         /\ \A i \in Ids : Exists(i)' => /\ Exists(i) /\ integrations'[i].key = integrations[i].key
                                         /\ integrations'[i].type = integrations[i].type
<1>0. Sound(run[p])
  BY DEF Processes
<1>1. ASSUME UNCHANGED integrations
      PROVE  \A i \in Ids : Exists(i)' => /\ Exists(i) /\ integrations'[i].key = integrations[i].key
                                         /\ integrations'[i].type = integrations[i].type
  BY <1>1 DEF Exists
<1>2. ASSUME UNCHANGED <<integrations, op, files>>
      PROVE  Stores'
  BY <1>2 DEF Stores, Apps, files
<1>3. CASE Add(p)
  BY <1>1, <1>2, <1>3 DEF Add
<1>4. CASE (Patch(p) \/ Delete(p)) /\ UNCHANGED integrations
  BY <1>1, <1>2, <1>4 DEF Patch, Delete
<1>5. CASE Patch(p) /\ ~UNCHANGED integrations
  <2> DEFINE i == run[p].id
             row == Patched(integrations[i], run[p].flags, run[p].read)
  <2>1. i \in Ids /\ integrations' = [integrations EXCEPT ![i] = row] /\ Exists(i)
    BY <1>0, <1>5 DEF Patch, Sound, ChoicePart
  <2>2. run[p].flags \subseteq UpdateFlags
    BY <1>0, <1>5 DEF Patch, Sound, ChoicePart
  <2>3. /\ row = [x \in Fields |-> row[x]]
        /\ row.key = integrations[i].key /\ row.type = integrations[i].type
    BY <2>2 DEF Patched, Fields, Opts, UpdateFlags
  <2> HIDE DEF i, row
  <2>4. \A j \in Ids : integrations'[j] = IF j = i THEN row ELSE integrations[j]
    BY <2>1 DEF Stores
  <2>5. \A j \in Ids : /\ integrations'[j].key = integrations[j].key
                       /\ integrations'[j].type = integrations[j].type
    BY <2>3, <2>4
  <2>6. /\ integrations' = [j \in Ids |-> integrations'[j]]
        /\ \A j \in Ids : integrations'[j] = [x \in Fields |-> integrations'[j][x]]
    BY <2>1, <2>3, <2>4 DEF Stores
  <2>7. \A j \in Apps' : integrations'[j].key \in Nat
    BY <2>5 DEF Apps, Stores
  <2>8. UNCHANGED <<op, files>>
    BY <1>5 DEF Patch
  <2> QED BY <2>5, <2>6, <2>7, <2>8 DEF Exists, Stores, files
<1>6. CASE Delete(p) /\ ~UNCHANGED integrations
  <2> DEFINE i == run[p].id
  <2>1. i \in Ids /\ integrations' = [integrations EXCEPT ![i] = Gone]
    BY <1>0, <1>6 DEF Delete, Sound, ChoicePart
  <2>3. Gone = [x \in Fields |-> Gone[x]] /\ Gone.type = None
    BY DEF Gone, Fields
  <2> HIDE DEF i
  <2>4. \A j \in Ids : integrations'[j] = IF j = i THEN Gone ELSE integrations[j]
    BY <2>1 DEF Stores
  <2>5. \A j \in Ids : Exists(j)' => j # i
    BY <2>3, <2>4 DEF Exists
  <2>6. /\ integrations' = [j \in Ids |-> integrations'[j]]
        /\ \A j \in Ids : integrations'[j] = [x \in Fields |-> integrations'[j][x]]
    BY <2>1, <2>3, <2>4 DEF Stores
  <2>7. \A j \in Apps' : j \in Apps /\ integrations'[j] = integrations[j]
    BY <2>3, <2>4 DEF Apps, None
  <2>8. UNCHANGED <<op, files>>
    BY <1>6 DEF Delete
  <2>9. \A j \in Ids : Exists(j)' => integrations'[j] = integrations[j]
    BY <2>4, <2>5
  <2> QED BY <2>6, <2>7, <2>8, <2>9 DEF Exists, Stores, files
<1> QED BY <1>3, <1>4, <1>5, <1>6 DEF Serves, Add, Patch, Delete

(* So does the configuration.                                               *)
LEMMA ConfiguresStores ==
  ASSUME Processes, Stores, NEW p \in Procs, Configures(p)
  PROVE  Stores' /\ UNCHANGED <<service, env, ignored>>
<1>1. UNCHANGED <<service, env, ignored>>
  BY DEF Configures, TruncateConfig, FillConfig
<1>2. config' = [apiKey |-> config'.apiKey, workspaceId |-> config'.workspaceId]
  <2>1. CASE TruncateConfig(p)
    BY <2>1 DEF TruncateConfig
  <2>2. CASE FillConfig(p)
    <3>1. Sound(run[p])
      BY DEF Processes
    <3>2. run[p].read = [apiKey |-> run[p].read.apiKey, workspaceId |-> run[p].read.workspaceId]
      BY <2>2, <3>1 DEF FillConfig, Sound, ChoicePart
    <3> QED BY <2>2, <3>2 DEF FillConfig
  <2> QED BY <2>1, <2>2 DEF Configures
<1> QED BY <1>1, <1>2 DEF Stores, Apps, service

(* The row of i is another one.                                              *)
LEMMA MakesStores ==
  ASSUME Processes, Stores, NEW p \in Procs, NEW i \in Ids, NEW n \in Nat, MakesKey(p, i, n),
         UNCHANGED <<added, op, files>>
  PROVE  /\ Stores'
         /\ \A j \in Ids \ {i} : integrations'[j] = integrations[j]
         /\ integrations'[i].key = n
<1>1. PICK row : /\ integrations' = [integrations EXCEPT ![i] = row]
                 /\ row = [x \in Fields |-> row[x]] /\ row.type = "app" /\ row.key = n
  BY DEF MakesKey
<1>2. \A j \in Ids : integrations'[j] = IF j = i THEN row ELSE integrations[j]
  BY <1>1 DEF Stores
<1>3. /\ integrations' = [j \in Ids |-> integrations'[j]]
      /\ \A j \in Ids : integrations'[j] = [x \in Fields |-> integrations'[j][x]]
  BY <1>1, <1>2 DEF Stores
<1>4. \A j \in Apps' : integrations'[j].key \in Nat
  BY <1>1, <1>2 DEF Stores, Apps
<1> QED BY <1>1, <1>2, <1>3, <1>4 DEF Stores, files

(* The env file is another one, with one assignment.                        *)
LEMMA WritesStores ==
  ASSUME Processes, Stores, NEW p \in Procs, Writes(p)
  PROVE  /\ Stores'
         /\ \A f \in Files \ {run[p].file} : env'[f] = env[f]
         /\ env'[run[p].file] = [keys |-> <<run[p].made>>, lines |-> run[p].read.lines]
<1>1. PICK new : new = [keys |-> <<run[p].made>>, lines |-> run[p].read.lines]
  OBVIOUS
<1>2. env' = [env EXCEPT ![run[p].file] = new] /\ run[p].file \in Files
  BY <1>1 DEF Writes, Replaces
<1>3. \A f \in Files : env'[f] = IF f = run[p].file THEN new ELSE env[f]
  BY <1>2 DEF Stores
<1>4. new = [keys |-> new.keys, lines |-> new.lines]
  BY <1>1
<1>5. \A f \in Files : env[f] = [keys |-> env[f].keys, lines |-> env[f].lines]
  BY DEF Stores
<1>6. \A f \in Files : env'[f] = [keys |-> env'[f].keys, lines |-> env'[f].lines]
  BY <1>3, <1>4, <1>5
<1>7. env' = [f \in Files |-> [keys |-> env'[f].keys, lines |-> env'[f].lines]]
  BY <1>2, <1>6 DEF Stores
<1> QED BY <1>1, <1>2, <1>3, <1>7 DEF Stores, Apps, Writes, service

(* Stores is inductive, given Processes.                                    *)
LEMMA StoresKept ==
  ASSUME Processes, Stores, [Next]_vars
  PROVE  Stores'
<1>1. ASSUME UNCHANGED <<integrations, config, env>>,
             \/ op' = op \/ \E q, status : op' = [op EXCEPT ![q] = status]
      PROVE  Stores'
  BY <1>1 DEF Stores, Apps
<1>2. CASE UNCHANGED vars
  BY <1>1, <1>2 DEF vars
<1>3. ASSUME NEW p \in Procs, Begin(p) PROVE Stores'
  BY <1>1, <1>3 DEF Begin, StartUpdate, StartDelete, StartAdd, StartRegenerate, StartCreate,
     StartSetup, StartLogin, StartLogout, StartSwitch, StartSync, Start, service, files
<1>4. ASSUME NEW p \in Procs, Work(p) PROVE Stores'
  BY <1>1, <1>4 DEF Work, files
<1>5. ASSUME NEW p \in Procs, Acts(p) PROVE Stores'
  <2> DEFINE now == [x \in Places |-> At(x)]
  <2>1. Shows(now)
    BY DEF Shows
  <2>2. CASE Quiet(p)
    BY <1>1, <2>2 DEF Quiet, Asks, files
  <2>3. CASE Makes(p)
    BY <2>3, MakesStores DEF Makes
  <2>4. CASE Closes(p)
    BY <1>1, <2>4 DEF Closes, service
  <2> HIDE DEF now
  <2> QED BY <1>5, <2>1, <2>2, <2>3, <2>4, EveryStep, ServesStores, ConfiguresStores, WritesStores
<1> QED BY <1>2, <1>3, <1>4, <1>5 DEF Next, Acts

(* Processes is inductive, given Stores.                                    *)
LEMMA ProcessesKept ==
  ASSUME Processes, Stores, [Next]_vars
  PROVE  Processes'
<1>1. CASE UNCHANGED vars \/ \E p \in Procs : Work(p)
  BY <1>1 DEF vars, Work, Processes
<1>3. ASSUME NEW p \in Procs, Begin(p) PROVE Processes'
  BY <1>3, StartMoved DEF Begin, StartUpdate, StartDelete, StartAdd, StartRegenerate, StartCreate,
     StartSetup, StartLogin, StartLogout, StartSwitch, StartSync, CommandsAt
<1>5. ASSUME NEW p \in Procs, Acts(p) PROVE Processes'
  <2> DEFINE now == [x \in Places |-> At(x)]
  <2>1. Shows(now)
    BY DEF Shows
  <2> HIDE DEF now
  <2> QED BY <1>5, <2>1, EveryStep DEF Moves, Drives, Makes, MakesKey, Receives, Writes,
      Replaces, Closes, Covers
<1> QED BY <1>1, <1>3, <1>5 DEF Next, Acts

-----------------------------------------------------------------------------
(* The keys.  A key that is not its integration's any more was outdone by a   *)
(* process that did not end before the one that made it was started.          *)
Outdone(p) ==
  LET i == run[p].made[1] IN
  run[p].made # <<>> /\ Exists(i) /\ integrations[i].key # run[p].made[2] =>
    \E w \in Procs : run[w].made = <<i, integrations[i].key>> /\ w \notin run[p].after

(* A key that was written is there until it is written over.                  *)
Overwritten(p) ==
  run[p].at = "ignore" =>
    \/ FirstKey(run[p].file) = run[p].made
    \/ \E q \in Procs \ {p} : Begun(q) /\ run[q].made # <<>> /\ Overlapped(p, q)

KeysTyped == \A f \in Files : FirstKey(f) = <<>> \/ FirstKey(f) \in Ids \X Nat

KeysInv ==
  /\ KeysTyped
  /\ \A p \in Procs : Outdone(p) /\ Overwritten(p)
  /\ KeysStayUsable

(* The first assignment with a value when there is only one.                *)
LEMMA OneKey ==
  ASSUME NEW keys, NEW n \in Nat, n \in DOMAIN keys, keys[n] # <<>>,
         \A m \in DOMAIN keys \ {n} : keys[m] = <<>>,
         NEW given, given = {m \in DOMAIN keys : keys[m] # <<>>}
  PROVE  given # {} /\ keys[CHOOSE m \in given : \A l \in given : m <= l] = keys[n]
<1>1. given = {n}
  OBVIOUS
<1> QED BY <1>1

(* What leaves every key where it is.                                         *)
Mild ==
  /\ \A i \in Ids : Exists(i)' => Exists(i) /\ integrations'[i].key = integrations[i].key
  /\ env' = env
  /\ \A q \in Procs : /\ run'[q].made = run[q].made
                      /\ Begun(q) => Begun(q)' /\ run'[q].after = run[q].after
                      /\ run[q].made # <<>> => run'[q].file = run[q].file
                      /\ run[q].made # <<>> /\ run'[q].exit = "ok" => run[q].exit = "ok"
                      /\ run'[q].at = "ignore" => run[q].at = "ignore"

(* Only a process that was started has made a key.                          *)
LEMMA MadeBegun ==
  ASSUME Processes, NEW p \in Procs, run[p].made # <<>>
  PROVE  Begun(p) /\ run[p].made \in Ids \X Nat
<1>1. Placed(run[p])
  BY DEF Processes, Sound
<1>2. Begun(p)
  BY <1>1 DEF Placed, Fresh, Begun
<1> QED BY <1>1, <1>2 DEF Placed, KeyPart

(* What leaves the keys alone keeps KeysInv.                                *)
LEMMA MildKeeps ==
  ASSUME Processes, Stores, KeysInv, Mild
  PROVE  KeysInv'
<1>1. \A f \in Files : FirstKey(f)' = FirstKey(f)
  BY DEF Mild, FirstKey
<1>2. KeysTyped'
  BY <1>1 DEF KeysInv, KeysTyped
<1>3. \A p, q \in Procs : Begun(p) /\ Begun(q) /\ Overlapped(p, q) => Overlapped(p, q)'
  BY DEF Mild, Overlapped
<1>4. ASSUME NEW p \in Procs PROVE Outdone(p)'
  <2> DEFINE i == run[p].made[1]
  <2>1. SUFFICES ASSUME run'[p].made # <<>>, integrations'[run'[p].made[1]].type # None,
                        integrations'[run'[p].made[1]].key # run'[p].made[2]
                 PROVE \E w \in Procs :
                          /\ run'[w].made = <<run'[p].made[1], integrations'[run'[p].made[1]].key>>
                          /\ w \notin run'[p].after
    BY DEF Outdone, Exists
  <2>2. run[p].made # <<>> /\ i \in Ids /\ run'[p].made = run[p].made /\ Begun(p)
    BY <2>1, MadeBegun DEF Mild
  <2>3. /\ Exists(i) /\ integrations'[i].key = integrations[i].key
        /\ integrations[i].key # run[p].made[2]
    BY <2>1, <2>2 DEF Mild, Exists
  <2>4. PICK w \in Procs : run[w].made = <<i, integrations[i].key>> /\ w \notin run[p].after
    BY <2>2, <2>3 DEF KeysInv, Outdone
  <2>5. run'[w].made = run[w].made /\ run'[p].after = run[p].after
    BY <2>2 DEF Mild
  <2> QED BY <2>2, <2>3, <2>4, <2>5
<1>5. ASSUME NEW p \in Procs PROVE Overwritten(p)'
  <2>1. SUFFICES ASSUME run'[p].at = "ignore" PROVE Overwritten(p)'
    BY DEF Overwritten
  <2>2. /\ run[p].at = "ignore" /\ run[p].made # <<>> /\ run[p].file \in Files
        /\ run'[p].made = run[p].made /\ run'[p].file = run[p].file /\ Begun(p)
    <3>1. run[p].at = "ignore" /\ Placed(run[p])
      BY <2>1 DEF Mild, Processes, Sound
    <3>2. run[p].made # <<>> /\ run[p].file \in Files
      BY <3>1 DEF Placed, KeyPart, Writing
    <3> QED BY <3>1, <3>2, MadeBegun DEF Mild
  <2>3. CASE FirstKey(run[p].file) = run[p].made
    <3>1. FirstKey(run[p].file)' = run'[p].made
      BY <1>1, <2>2, <2>3 DEF FirstKey
    <3> QED BY <3>1 DEF Overwritten
  <2>4. ASSUME NEW q \in Procs \ {p}, Begun(q), run[q].made # <<>>, Overlapped(p, q)
        PROVE  Overwritten(p)'
    <3>1. Begun(q)' /\ run'[q].made # <<>> /\ Overlapped(p, q)'
      BY <2>2, <2>4, <1>3 DEF Mild
    <3> QED BY <3>1 DEF Overwritten
  <2> QED BY <2>2, <2>3, <2>4 DEF KeysInv, Overwritten
<1>6. ASSUME NEW f \in Files, NEW k, k = FirstKey(f), k # <<>>, integrations'[k[1]].type # None,
             integrations'[k[1]].key # k[2]
      PROVE  \E p \in Procs :
               /\ Begun(p)' /\ run'[p].made = <<k[1], integrations'[k[1]].key>>
               /\ \/ run'[p].exit # "ok" \/ run'[p].file # f
                  \/ \E q \in Procs \ {p} : Begun(q)' /\ run'[q].made # <<>> /\ Overlapped(p, q)'
  <2>1. k[1] \in Ids
    BY <1>6 DEF KeysInv, KeysTyped
  <2>2. Exists(k[1]) /\ integrations'[k[1]].key = integrations[k[1]].key
    BY <1>6, <2>1 DEF Mild, Exists
  <2>3. PICK p \in Procs :
          /\ Begun(p) /\ run[p].made = <<k[1], integrations[k[1]].key>>
          /\ \/ run[p].exit # "ok" \/ run[p].file # f
             \/ \E q \in Procs \ {p} : Begun(q) /\ run[q].made # <<>> /\ Overlapped(p, q)
    BY <1>6, <2>2 DEF KeysInv, KeysStayUsable
  <2>4. run[p].made # <<>> /\ run'[p].made = <<k[1], integrations'[k[1]].key>> /\ Begun(p)'
    BY <2>2, <2>3 DEF Mild
  <2>5. CASE run[p].exit # "ok" \/ run[p].file # f
    BY <2>4, <2>5 DEF Mild
  <2>6. ASSUME NEW q \in Procs \ {p}, Begun(q), run[q].made # <<>>, Overlapped(p, q)
        PROVE  Begun(q)' /\ run'[q].made # <<>> /\ Overlapped(p, q)'
    BY <2>3, <2>6, <1>3 DEF Mild
  <2> QED BY <2>3, <2>4, <2>5, <2>6
<1>7. KeysStayUsable'
  <2>1. \A f \in Files : LET k == FirstKey(f) IN
          k # <<>> /\ integrations'[k[1]].type # None /\ integrations'[k[1]].key # k[2] =>
            \E p \in Procs :
               /\ Begun(p)' /\ run'[p].made = <<k[1], integrations'[k[1]].key>>
               /\ \/ run'[p].exit # "ok" \/ run'[p].file # f
                  \/ \E q \in Procs \ {p} : Begun(q)' /\ run'[q].made # <<>> /\ Overlapped(p, q)'
    BY <1>6
  <2> QED BY <1>1, <2>1 DEF KeysStayUsable, Exists
<1> QED BY <1>2, <1>4, <1>5, <1>7 DEF KeysInv

FirstOf(keys) ==
  LET given == {n \in DOMAIN keys : keys[n] # <<>>}
  IN  IF given = {} THEN <<>> ELSE keys[CHOOSE n \in given : \A m \in given : n <= m]

(* Who takes a step has been started, is not before another, and overlaps whom it
   overlapped.  *)
LEMMA StepsBegun ==
  ASSUME Processes, NEW p \in Procs, Drives(p)
  PROVE  /\ Begun(p) /\ Begun(p)' /\ \A q \in Procs : p \notin run[q].after
         /\ \A q \in Procs : (Begun(q)' <=> Begun(q)) /\ run'[q].after = run[q].after
         /\ \A q, w \in Procs : Overlapped(q, w)' <=> Overlapped(q, w)
<1>1. Begun(p) /\ run[p].at # "ended"
  BY DEF Drives, Running, Processes, Sound, Placed, Begun, Fresh
<1>2. \A q \in Procs : p \notin run[q].after
  BY <1>1 DEF Processes
<1>3. \A q \in Procs : run'[q].cmd = run[q].cmd /\ run'[q].after = run[q].after
  BY DEF Drives, Others
<1> QED BY <1>1, <1>2, <1>3 DEF Begun, Overlapped

(* The process that makes a key is the one that outdoes every older key of i.*)
LEMMA MakesKeeps ==
  ASSUME Processes, Stores, KeysInv, NEW p \in Procs, Makes(p)
  PROVE  KeysInv'
<1>1. PICK i \in Ids, n \in Nat : MakesKey(p, i, n)
  BY DEF Makes
<1>2. /\ Drives(p) /\ run'[p].made = <<i, n>> /\ run'[p].exit # "ok" /\ run'[p].at # "ignore"
      /\ run[p].made = <<>>
  BY <1>1 DEF MakesKey, Receives, Processes, Sound, Placed, KeyPart, Writing, None
<1>3. /\ \A j \in Ids \ {i} : integrations'[j] = integrations[j]
      /\ integrations'[i].key = n
  BY <1>1, MakesStores DEF Makes
<1>4. \A f \in Files : FirstKey(f)' = FirstKey(f)
  BY DEF Makes, files, FirstKey
<1>5. KeysTyped'
  BY <1>4 DEF KeysInv, KeysTyped
<1>6. \A q \in Procs \ {p} : run'[q] = run[q]
  BY <1>2 DEF Drives, Others
<1>7. ASSUME NEW q \in Procs PROVE Outdone(q)'
  <2>1. SUFFICES ASSUME run'[q].made # <<>>, integrations'[run'[q].made[1]].type # None,
                        integrations'[run'[q].made[1]].key # run'[q].made[2]
                 PROVE \E w \in Procs :
                          /\ run'[w].made = <<run'[q].made[1], integrations'[run'[q].made[1]].key>>
                          /\ w \notin run'[q].after
    BY DEF Outdone, Exists
  <2>2. CASE q = p
    BY <1>2, <1>3, <2>1, <2>2
  <2>3. CASE q # p /\ run[q].made[1] = i
    <3>1. p \notin run'[q].after
      BY <1>2, StepsBegun
    <3> QED BY <1>2, <1>3, <1>6, <2>3, <3>1
  <2>4. CASE q # p /\ run[q].made[1] # i
    <3>1. run[q].made # <<>> /\ run'[q] = run[q] /\ run[q].made[1] \in Ids \ {i}
      BY <1>6, <2>1, <2>4, MadeBegun
    <3>2. PICK w \in Procs : /\ run[w].made = <<run[q].made[1], integrations[run[q].made[1]].key>>
                             /\ w \notin run[q].after
      BY <1>3, <2>1, <3>1 DEF KeysInv, Outdone, Exists
    <3>4. run[w].made # <<>>
      BY <3>2
    <3>3. w # p
      BY <1>2, <3>4
    <3> QED BY <1>3, <1>6, <3>1, <3>2, <3>3
  <2> QED BY <2>2, <2>3, <2>4
<1>8. ASSUME NEW q \in Procs PROVE Overwritten(q)'
  <2>1. CASE run'[q].at # "ignore"
    BY <2>1 DEF Overwritten
  <2>2. CASE run'[q].at = "ignore"
    <3>1. q # p /\ run'[q] = run[q] /\ run[q].at = "ignore"
      BY <1>2, <1>6, <2>2
    <3>2. run[q].file \in Files
      BY <3>1 DEF Processes, Sound, Placed, KeyPart, Writing
    <3>3. CASE FirstKey(run[q].file) = run[q].made
      <4>1. FirstKey(run[q].file)' = run'[q].made
        BY <1>4, <3>1, <3>2, <3>3 DEF FirstKey
      <4> QED BY <4>1 DEF Overwritten
    <3>4. ASSUME NEW w \in Procs \ {q}, Begun(w), run[w].made # <<>>, Overlapped(q, w)
          PROVE  Overwritten(q)'
      <4>1. Begun(w)' /\ Overlapped(q, w)' /\ run'[w].made # <<>>
        BY <1>2, <1>6, <3>4, StepsBegun
      <4> QED BY <4>1 DEF Overwritten
    <3> QED BY <3>1, <3>3, <3>4 DEF KeysInv, Overwritten
  <2> QED BY <2>1, <2>2
<1>9. ASSUME NEW f \in Files, NEW k, k = FirstKey(f), k # <<>>, integrations'[k[1]].type # None,
             integrations'[k[1]].key # k[2]
      PROVE  \E w \in Procs :
               /\ Begun(w)' /\ run'[w].made = <<k[1], integrations'[k[1]].key>>
               /\ \/ run'[w].exit # "ok" \/ run'[w].file # f
                  \/ \E q \in Procs \ {w} : Begun(q)' /\ run'[q].made # <<>> /\ Overlapped(w, q)'
  <2>1. k[1] \in Ids
    BY <1>9 DEF KeysInv, KeysTyped
  <2>2. CASE k[1] = i
    BY <1>2, <1>3, <2>2, StepsBegun
  <2>3. CASE k[1] # i
    <3>1. integrations'[k[1]] = integrations[k[1]]
      BY <1>3, <2>1, <2>3
    <3>2. PICK w \in Procs :
            /\ Begun(w) /\ run[w].made = <<k[1], integrations[k[1]].key>>
            /\ \/ run[w].exit # "ok" \/ run[w].file # f
               \/ \E q \in Procs \ {w} : Begun(q) /\ run[q].made # <<>> /\ Overlapped(w, q)
      BY <1>9, <3>1 DEF KeysInv, KeysStayUsable, Exists
    <3>5. run[w].made # <<>>
      BY <3>2
    <3>3. w # p /\ run'[w] = run[w]
      BY <1>2, <1>6, <3>5
    <3>4. \A q \in Procs : run[q].made # <<>> => run'[q].made # <<>>
      BY <1>2, <1>6
    <3> QED BY <1>2, <3>1, <3>2, <3>3, <3>4, StepsBegun
  <2> QED BY <2>2, <2>3
<1>10. KeysStayUsable'
  <2>1. \A f \in Files : LET k == FirstKey(f) IN
          k # <<>> /\ integrations'[k[1]].type # None /\ integrations'[k[1]].key # k[2] =>
            \E w \in Procs :
               /\ Begun(w)' /\ run'[w].made = <<k[1], integrations'[k[1]].key>>
               /\ \/ run'[w].exit # "ok" \/ run'[w].file # f
                  \/ \E q \in Procs \ {w} : Begun(q)' /\ run'[q].made # <<>> /\ Overlapped(w, q)'
    BY <1>9
  <2> QED BY <1>4, <2>1 DEF KeysStayUsable, Exists
<1> QED BY <1>5, <1>7, <1>8, <1>10 DEF KeysInv

(* The key that is written is its integration's, or was outdone meanwhile by a
   process that overlaps this one.  *)
LEMMA WritesKeeps ==
  ASSUME Processes, Stores, KeysInv, NEW p \in Procs, Writes(p)
  PROVE  KeysInv' /\ FirstKey(run[p].file)' = run'[p].made
<1>0. PICK file : file = run[p].file
  OBVIOUS
<1>1. /\ Drives(p) /\ run'[p].exit = None /\ run[p].exit = None /\ run'[p].made = run[p].made
      /\ run[p].made # <<>> /\ run[p].file \in Files /\ run'[p].file = run[p].file
      /\ run[p].at = "rename"
  BY DEF Writes, Replaces, Processes, Sound, Placed
<1>2. /\ \A f \in Files \ {run[p].file} : env'[f] = env[f]
      /\ env'[run[p].file] = [keys |-> <<run[p].made>>, lines |-> run[p].read.lines]
  BY WritesStores
<1>3. UNCHANGED integrations
  BY DEF Writes, service
<1>4. \A f \in Files \ {file} : FirstKey(f)' = FirstKey(f)
  <2> SUFFICES ASSUME NEW f \in Files \ {file} PROVE FirstKey(f)' = FirstKey(f)
    OBVIOUS
  <2>1. env'[f].keys = env[f].keys
    BY <1>0, <1>2
  <2>2. FirstKey(f) = FirstOf(env[f].keys) /\ FirstKey(f)' = FirstOf(env'[f].keys)
    BY DEF FirstKey, FirstOf
  <2> QED BY <2>1, <2>2
<1>5. FirstKey(file)' = run[p].made
  <2>1. PICK keys : keys = <<run[p].made>>
    OBVIOUS
  <2>2. 1 \in DOMAIN keys /\ keys[1] = run[p].made /\ \A m \in DOMAIN keys \ {1} : keys[m] = <<>>
    BY <2>1
  <2>3. env'[file].keys = keys
    BY <1>0, <1>2, <2>1
  <2>4. PICK given : given = {m \in DOMAIN keys : keys[m] # <<>>}
    OBVIOUS
  <2>5. given # {} /\ keys[CHOOSE m \in given : \A l \in given : m <= l] = keys[1]
    BY <1>1, <2>2, <2>4, OneKey
  <2> QED BY <1>1, <2>2, <2>3, <2>4, <2>5 DEF FirstKey
<1>6. FirstKey(run[p].file)' = run'[p].made
  BY <1>0, <1>1, <1>5 DEF FirstKey
<1>7. run[p].made \in Ids \X Nat
  BY <1>1, MadeBegun
<1>8. KeysTyped'
  BY <1>1, <1>4, <1>5, <1>7 DEF KeysInv, KeysTyped
<1>9. \A q \in Procs : q # p => run'[q] = run[q]
  BY <1>1 DEF Drives, Others
<1>10. \A q \in Procs : run'[q].made = run[q].made /\ run'[q].after = run[q].after
                        /\ run'[q].exit = run[q].exit /\ run'[q].file = run[q].file
                        /\ (Begun(q)' <=> Begun(q))
  BY <1>1, <1>9, StepsBegun
<1>11. ASSUME NEW q \in Procs PROVE Outdone(q)'
  BY <1>3, <1>10 DEF KeysInv, Outdone, Exists
<1>12. ASSUME NEW q \in Procs PROVE Overwritten(q)'
  <2>1. CASE q = p
    BY <1>6, <2>1 DEF Overwritten
  <2>2. CASE run'[q].at # "ignore"
    BY <2>2 DEF Overwritten
  <2>3. CASE q # p /\ run'[q].at = "ignore"
    <3>1. run'[q] = run[q] /\ run[q].at = "ignore" /\ run[q].file \in Files /\ run[q].made # <<>>
      BY <1>9, <2>3 DEF Processes, Sound, Placed, KeyPart, Writing
    <3>2. q \notin run[p].after /\ p \notin run[q].after
      BY <1>1, <3>1, StepsBegun DEF Processes
    <3>3. Overlapped(q, p)' /\ Begun(p)' /\ run'[p].made # <<>>
      BY <1>1, <3>2, StepsBegun DEF Overlapped
    <3> QED BY <2>3, <3>3 DEF Overwritten
  <2> QED BY <2>1, <2>2, <2>3
<1>13. ASSUME NEW f \in Files, NEW k, k = FirstKey(f)', k # <<>>, Exists(k[1]),
              integrations[k[1]].key # k[2]
       PROVE  \E w \in Procs :
               /\ Begun(w) /\ run[w].made = <<k[1], integrations[k[1]].key>>
               /\ \/ run[w].exit # "ok" \/ run[w].file # f
                  \/ \E q \in Procs \ {w} : Begun(q) /\ run[q].made # <<>> /\ Overlapped(w, q)
  <2>1. CASE f # file
    BY <1>13, <1>4, <2>1 DEF KeysInv, KeysStayUsable
  <2>2. CASE f = file
    <3>1. k = run[p].made
      BY <1>5, <1>13, <2>2
    <3>2. PICK w \in Procs : run[w].made = <<k[1], integrations[k[1]].key>> /\ w \notin run[p].after
      BY <1>1, <1>13, <3>1 DEF KeysInv, Outdone
    <3>3. Begun(w) /\ w # p /\ p \notin run[w].after /\ Begun(p)
      BY <1>1, <1>13, <3>1, <3>2, MadeBegun, StepsBegun
    <3>4. Overlapped(w, p)
      BY <3>2, <3>3 DEF Overlapped
    <3> QED BY <1>0, <1>1, <2>2, <3>2, <3>3, <3>4
  <2> QED BY <2>1, <2>2
<1>14. KeysStayUsable'
  <2>1. \A q, w \in Procs : Overlapped(q, w) <=> Overlapped(q, w)'
    BY <1>1, StepsBegun
  <2>2. ASSUME NEW f \in Files, NEW k, k = FirstKey(f)', k # <<>>, Exists(k[1]),
               integrations[k[1]].key # k[2]
        PROVE  \E w \in Procs :
               /\ Begun(w)' /\ run'[w].made = <<k[1], integrations[k[1]].key>>
               /\ \/ run'[w].exit # "ok" \/ run'[w].file # f
                  \/ \E q \in Procs \ {w} : Begun(q)' /\ run'[q].made # <<>> /\ Overlapped(w, q)'
    <3>1. PICK w \in Procs :
            /\ Begun(w) /\ run[w].made = <<k[1], integrations[k[1]].key>>
            /\ \/ run[w].exit # "ok" \/ run[w].file # f
               \/ \E q \in Procs \ {w} : Begun(q) /\ run[q].made # <<>> /\ Overlapped(w, q)
      BY <1>13, <2>2
    <3> QED BY <3>1, <1>10, <2>1
  <2> QED BY <1>3, <2>2 DEF KeysStayUsable, Exists
<1> QED BY <1>6, <1>8, <1>11, <1>12, <1>14 DEF KeysInv

(* A process that ends well leaves its key in the file, unless another wrote there.*)
LEMMA ClosesKeeps ==
  ASSUME Processes, Stores, KeysInv, NEW p \in Procs, Closes(p)
  PROVE  KeysInv'
<1>1. /\ Drives(p) /\ run[p].exit = None /\ run[p].at = "ignore" /\ run'[p].at = "ended"
      /\ run'[p].made = run[p].made /\ run'[p].file = run[p].file
  BY DEF Closes, Covers, Ended, Processes, Sound, Placed
<1>2. UNCHANGED integrations /\ env' = env
  BY DEF Closes, service
<1>3. \A f \in Files : FirstKey(f)' = FirstKey(f)
  BY <1>2 DEF FirstKey
<1>4. \A q \in Procs : q # p => run'[q] = run[q]
  BY <1>1 DEF Drives, Others
<1>5. \A q \in Procs : run'[q].made = run[q].made /\ run'[q].after = run[q].after
                       /\ run'[q].file = run[q].file /\ (Begun(q)' <=> Begun(q))
  BY <1>1, <1>4, StepsBegun
<1>6. \A q, w \in Procs : Overlapped(q, w) <=> Overlapped(q, w)'
  BY <1>1, StepsBegun
<1>7. ASSUME NEW q \in Procs PROVE Outdone(q)'
  BY <1>2, <1>5 DEF KeysInv, Outdone, Exists
<1>8. ASSUME NEW q \in Procs PROVE Overwritten(q)'
  <2>1. CASE run'[q].at # "ignore"
    BY <2>1 DEF Overwritten
  <2>2. CASE run'[q].at = "ignore"
    <3>1. q # p /\ run'[q] = run[q] /\ run[q].at = "ignore"
      BY <1>1, <1>4, <2>2
    <3>2. run[q].file \in Files
      BY <3>1 DEF Processes, Sound, Placed, KeyPart, Writing
    <3>3. CASE FirstKey(run[q].file) = run[q].made
      <4>1. FirstKey(run[q].file)' = run'[q].made
        BY <1>3, <3>1, <3>2, <3>3 DEF FirstKey
      <4> QED BY <4>1 DEF Overwritten
    <3>4. ASSUME NEW w \in Procs \ {q}, Begun(w), run[w].made # <<>>, Overlapped(q, w)
          PROVE  Overwritten(q)'
      <4>1. Begun(w)' /\ Overlapped(q, w)' /\ run'[w].made # <<>>
        BY <1>5, <1>6, <3>4
      <4> QED BY <4>1 DEF Overwritten
    <3> QED BY <3>1, <3>3, <3>4 DEF KeysInv, Overwritten
  <2> QED BY <2>1, <2>2
<1>9. ASSUME NEW f \in Files, NEW k, k = FirstKey(f), k # <<>>, Exists(k[1]),
             integrations[k[1]].key # k[2]
      PROVE  \E w \in Procs :
               /\ Begun(w)' /\ run'[w].made = <<k[1], integrations[k[1]].key>>
               /\ \/ run'[w].exit # "ok" \/ run'[w].file # f
                  \/ \E q \in Procs \ {w} : Begun(q)' /\ run'[q].made # <<>> /\ Overlapped(w, q)'
  <2>1. PICK w \in Procs :
          /\ Begun(w) /\ run[w].made = <<k[1], integrations[k[1]].key>>
          /\ \/ run[w].exit # "ok" \/ run[w].file # f
             \/ \E q \in Procs \ {w} : Begun(q) /\ run[q].made # <<>> /\ Overlapped(w, q)
    BY <1>9 DEF KeysInv, KeysStayUsable
  <2>2. CASE w # p \/ run[p].file # f
    <3>1. \/ run'[w].exit # "ok" \/ run'[w].file # f
          \/ \E q \in Procs \ {w} : Begun(q) /\ run[q].made # <<>> /\ Overlapped(w, q)
      BY <1>4, <1>5, <2>1, <2>2
    <3> QED BY <1>5, <1>6, <2>1, <3>1
  <2>3. CASE w = p /\ run[p].file = f
    <3>1. FirstKey(run[p].file) # run[p].made
      BY <1>9, <2>1, <2>3
    <3>2. \E q \in Procs \ {p} : Begun(q) /\ run[q].made # <<>> /\ Overlapped(p, q)
      BY <1>1, <3>1 DEF KeysInv, Overwritten
    <3> QED BY <1>5, <1>6, <2>1, <2>3, <3>2
  <2> QED BY <2>2, <2>3
<1>10. KeysStayUsable'
  <2>1. \A f \in Files : LET k == FirstKey(f) IN
          k # <<>> /\ Exists(k[1]) /\ integrations[k[1]].key # k[2] =>
            \E w \in Procs :
               /\ Begun(w)' /\ run'[w].made = <<k[1], integrations[k[1]].key>>
               /\ \/ run'[w].exit # "ok" \/ run'[w].file # f
                  \/ \E q \in Procs \ {w} : Begun(q)' /\ run'[q].made # <<>> /\ Overlapped(w, q)'
    BY <1>9
  <2> QED BY <1>2, <1>3, <2>1 DEF KeysStayUsable, Exists
<1> QED BY <1>3, <1>7, <1>8, <1>10 DEF KeysInv, KeysTyped

(* A calm step leaves the keys alone.                                       *)
LEMMA CalmIsMild ==
  ASSUME Processes, NEW p \in Procs, Drives(p), Calm(run[p], run'[p]), env' = env,
         \A i \in Ids : Exists(i)' => Exists(i) /\ integrations'[i].key = integrations[i].key
  PROVE  Mild
<1>1. \A q \in Procs : q # p => run'[q] = run[q]
  BY DEF Drives, Others
<1> QED BY <1>1, StepsBegun DEF Calm, Mild

(* KeysInv is inductive, given Processes and Stores.                        *)
LEMMA KeysKept ==
  ASSUME Processes, Stores, KeysInv, [Next]_vars
  PROVE  KeysInv'
<1>1. CASE UNCHANGED vars \/ \E p \in Procs : Work(p)
  BY <1>1, MildKeeps DEF vars, Work, files, Mild, Begun, Exists
<1>2. ASSUME NEW p \in Procs, Begin(p) PROVE KeysInv'
  <2>1. PICK cmd, at : Start(p, cmd, at) /\ cmd \in CommandsAt(at)
                       /\ at \in {"resolve", "create", "package", "auth", "browser", "paste", "config"}
                       /\ (at = "create" => cmd = "create")
    BY <1>2 DEF Begin, StartUpdate, StartDelete, StartAdd, StartRegenerate, StartCreate,
       StartSetup, StartLogin, StartLogout, StartSwitch, StartSync, CommandsAt
  <2>2. /\ Others(p) /\ ~Begun(p) /\ run'[p].at = at /\ run'[p].made = <<>> /\ run'[p].exit = None
    BY <2>1, StartMoved
  <2>3. run[p].made = <<>>
    BY <2>2, MadeBegun
  <2>4. UNCHANGED <<service, files>>
    BY <2>1 DEF Start
  <2>5. Mild
    BY <2>1, <2>2, <2>3, <2>4 DEF Mild, Others, Begun, Exists, service, files, None
  <2> QED BY <2>5, MildKeeps
<1>3. ASSUME NEW p \in Procs, Acts(p) PROVE KeysInv'
  <2> DEFINE now == [x \in Places |-> At(x)]
  <2>1. Shows(now)
    BY DEF Shows
  <2> HIDE DEF now
  <2>2. CASE Moves(p, now) /\ Quiet(p)
    BY <2>2, CalmIsMild, MildKeeps DEF Moves, Quiet, files, Exists
  <2>3. CASE Moves(p, now) /\ Serves(p)
    BY <2>3, CalmIsMild, MildKeeps, ServesStores DEF Moves, files
  <2>4. CASE Drives(p) /\ Calm(run[p], run'[p]) /\ Configures(p)
    BY <2>4, CalmIsMild, MildKeeps, ConfiguresStores DEF service, Exists
  <2> QED BY <1>3, <2>1, <2>2, <2>3, <2>4, EveryStep, MakesKeeps, WritesKeeps, ClosesKeeps
<1> QED BY <1>1, <1>2, <1>3 DEF Next, Acts

(* The initial states.                                                      *)
LEMMA Begins ==
  ASSUME Init
  PROVE  Processes /\ Stores /\ KeysInv /\ \A p \in Procs : run[p] = Fresh
<1>1. PICK b \in Beginnings :
    /\ integrations =
         [i \in Ids |->
           CASE i = "i1" -> [Gone EXCEPT !.name = b.app, !.type = "app", !.key = 1]
             [] i = "i2" -> [Gone EXCEPT !.name = b.source, !.type = b.type, !.url = "old",
                                         !.spaceId = "old", !.drafts = "old"]
             [] OTHER    -> Gone]
    /\ op = [p \in Procs |-> None]
    /\ config = [apiKey |-> b.apiKey, workspaceId |-> IF b.apiKey = None THEN None ELSE "w1"]
    /\ env = [f \in Files |-> [keys |-> IF f = ".env" THEN b.keys ELSE <<>>, lines |-> TRUE]]
    /\ run = [p \in Procs |-> Fresh]
  BY DEF Init
<1>2. /\ b.type # "app" /\ b.type # None
      /\ b.keys \in {<<>>, << <<"i1", 1>> >>, << <<>>, <<"i1", 1>> >>}
  BY DEF Beginnings, None
<1>3. Processes
  BY <1>1 DEF Processes, Sound, Placed, IsRun, KeyPart, ChoicePart, Fresh, Writing, None
<1>4. PICK app : app = [Gone EXCEPT !.name = b.app, !.type = "app", !.key = 1]
  OBVIOUS
<1>5. PICK source : source = [Gone EXCEPT !.name = b.source, !.type = b.type, !.url = "old",
                                          !.spaceId = "old", !.drafts = "old"]
  OBVIOUS
<1>6. app = [x \in Fields |-> app[x]] /\ app.key = 1
  BY <1>4 DEF Gone, Fields
<1>7. source = [x \in Fields |-> source[x]] /\ source.type = b.type
  BY <1>5 DEF Gone, Fields
<1>8. PICK gone : gone = Gone
  OBVIOUS
<1>9. gone = [x \in Fields |-> gone[x]] /\ gone.type = None
  BY <1>8 DEF Gone, Fields
<1>10. \A i \in Ids : integrations[i] = IF i = "i1" THEN app ELSE IF i = "i2" THEN source ELSE gone
  BY <1>1, <1>4, <1>5, <1>8
<1>11. Stores
  <2>1. integrations = [i \in Ids |-> integrations[i]]
    BY <1>1
  <2>2. \A i \in Ids : integrations[i] = [x \in Fields |-> integrations[i][x]]
    BY <1>6, <1>7, <1>9, <1>10
  <2>3. \A i \in Apps : integrations[i].key \in Nat
    <3> SUFFICES ASSUME NEW i \in Ids, integrations[i].type = "app"
                 PROVE  integrations[i].key = 1
      BY DEF Apps
    <3>1. integrations[i] = app
      BY <1>2, <1>7, <1>9, <1>10 DEF None
    <3> QED BY <3>1, <1>6
  <2>4. env = [f \in Files |-> [keys |-> env[f].keys, lines |-> env[f].lines]]
    BY <1>1
  <2> QED BY <1>1, <2>1, <2>2, <2>3, <2>4 DEF Stores
<1>12. ASSUME NEW keys \in {<<>>, << <<"i1", 1>> >>, << <<>>, <<"i1", 1>> >>}
       PROVE  FirstOf(keys) \in {<<>>, <<"i1", 1>>}
  <2>1. CASE keys = <<>>
    BY <2>1 DEF FirstOf
  <2>2. CASE keys = << <<"i1", 1>> >>
    <3>1. 1 \in DOMAIN keys /\ keys[1] = <<"i1", 1>> /\ \A m \in DOMAIN keys \ {1} : keys[m] = <<>>
      BY <2>2
    <3> QED BY <3>1, OneKey DEF FirstOf
  <2>3. CASE keys = << <<>>, <<"i1", 1>> >>
    <3>1. 2 \in DOMAIN keys /\ keys[2] = <<"i1", 1>> /\ \A m \in DOMAIN keys \ {2} : keys[m] = <<>>
      BY <2>3
    <3> QED BY <3>1, OneKey DEF FirstOf
  <2> QED BY <2>1, <2>2, <2>3
<1>13. \A f \in Files : FirstKey(f) \in {<<>>, <<"i1", 1>>}
  <2>1. \A f \in Files : env[f].keys \in {<<>>, << <<"i1", 1>> >>, << <<>>, <<"i1", 1>> >>}
    BY <1>1, <1>2
  <2>2. \A f \in Files : FirstKey(f) = FirstOf(env[f].keys)
    BY DEF FirstKey, FirstOf
  <2> QED BY <1>12, <2>1, <2>2
<1>14. KeysTyped
  BY <1>13 DEF KeysTyped, Ids
<1>15. KeysStayUsable
  <2>1. integrations["i1"].key = 1
    BY <1>6, <1>10 DEF Ids
  <2>2. \A f \in Files : FirstKey(f) # <<>> => FirstKey(f)[1] = "i1" /\ FirstKey(f)[2] = 1
    BY <1>13
  <2> QED BY <2>1, <2>2 DEF KeysStayUsable
<1>16. \A p \in Procs : run[p].made = <<>> /\ run[p].at = "idle" /\ run[p] = Fresh
  BY <1>1 DEF Fresh
<1>17. \A p \in Procs : Outdone(p) /\ Overwritten(p)
  BY <1>16 DEF Outdone, Overwritten
<1> QED BY <1>3, <1>11, <1>14, <1>15, <1>16, <1>17 DEF KeysInv

(* packages/cli, the keys of applications (setup, integrations create and     *)
(* regenerate-key): an application that finds a key in its env file finds the  *)
(* one its integration has, unless the command that made the newer key has not *)
(* ended well, wrote to another file, or ran beside another that wrote a key.  *)
THEOREM KeysUsable == Spec => []KeysStayUsable
<1> DEFINE IInv == Processes /\ Stores /\ KeysInv
<1>1. Init => IInv
  BY Begins
<1>2. IInv /\ [Next]_vars => IInv'
  BY ProcessesKept, StoresKept, KeysKept
<1>3. IInv => KeysStayUsable
  BY DEF KeysInv
<1> QED BY <1>1, <1>2, <1>3, PTL DEF Spec

-----------------------------------------------------------------------------
(* The steps that end a process well.                                        *)
LEMMA NotYetOk ==
  ASSUME Processes, NEW p \in Procs, Running(p), run'[p].exit = "ok",
         NEW what, "exit" \notin DOMAIN what, Continue(p, what)
  PROVE  FALSE
<1>1. run'[p].exit = run[p].exit
  BY Goes DEF Becomes
<1> QED BY <1>1 DEF Processes, Sound, Placed, Running, None

(* Nor those that end it with another code.                                 *)
LEMMA EndsWell ==
  ASSUME Processes, NEW p \in Procs, run'[p].exit = "ok", NEW code, End(p, code)
  PROVE  code = "ok" /\ Ended(run[p], run'[p], "ok")
BY Ends DEF Ended

(* p has ended well where its command can.                                   *)
Well(p) ==
  /\ Ended(run[p], run'[p], "ok")
  /\ run[p].at \in {"resolve", "patch", "delete", "choose", "pick", "add", "auth", "look", "app",
                    "create", "ignore", "config", "fill", "request", "wait"}
  /\ run[p].at = "config" => run[p].cmd = "logout"
  /\ run[p].at = "pick" => run[p].dry
  /\ run[p].at = "wait" => run[p].status = "completed" /\ op' = op
  /\ run[p].at = "patch" => Patch(p) /\ (run[p].dry \/ Exists(run[p].id))
  /\ run[p].at = "delete" => Delete(p) /\ Exists(run[p].id)
  /\ run[p].at = "add" => Add(p) /\ Exists(run[p].id)
  /\ run[p].at = "fill" => FillConfig(p)
  /\ run[p].at = "ignore" => EnsureGitignore(p)

(* A process that ends well does so where its command can.                  *)
LEMMA WellEnded ==
  ASSUME Processes, NEW p \in Procs, Drives(p), Acts(p), run'[p].exit = "ok"
  PROVE  Well(p)
<1>0. Running(p)
  BY DEF Drives
<1>1. ASSUME NEW what, "exit" \notin DOMAIN what, Continue(p, what) PROVE FALSE
  BY <1>0, <1>1, NotYetOk
<1>2. ASSUME NEW code, End(p, code) PROVE code = "ok" /\ Ended(run[p], run'[p], "ok")
  BY <1>2, EndsWell
<1>3. CASE Resolve(p)
  BY <1>1, <1>2, <1>3 DEF Resolve, Well
<1>4. CASE ReadFlags(p) \/ ReadExisting(p)
  BY <1>1, <1>2, <1>4 DEF ReadFlags, ReadExisting, Well
<1>5. CASE \/ Choose(p) \/ Scan(p) \/ PickRefs(p) \/ PickPackage(p) \/ CheckAuth(p)
           \/ LookForKey(p) \/ ListApps(p) \/ PickApp(p)
  BY <1>1, <1>2, <1>5 DEF Choose, Scan, PickRefs, PickPackage, CheckAuth, LookForKey, ListApps,
     PickApp, Well
<1>6. CASE \/ LoadEnv(p) \/ Authorize(p) \/ ExchangeCode(p) \/ OpenerEnds(p) \/ ReplaceEnv(p)
           \/ TruncateConfig(p)
  BY <1>1, <1>2, <1>6 DEF LoadEnv, Authorize, ExchangeCode, OpenerEnds, ReplaceEnv, TruncateConfig
<1>7. CASE ReadConfig(p)
  BY <1>1, <1>2, <1>7 DEF ReadConfig, Well
<1>8. CASE FillConfig(p) \/ EnsureGitignore(p)
  BY <1>1, <1>2, <1>8 DEF FillConfig, EnsureGitignore, Well
<1>9. CASE Patch(p) \/ Delete(p) \/ Add(p)
  BY <1>1, <1>2, <1>9 DEF Patch, Delete, Add, Answered, Well
<1>10. CASE Request(p)
  BY <1>1, <1>2, <1>10 DEF Request, Answered, Well
<1>11. CASE Settle(p)
  BY <1>1, <1>2, <1>11 DEF Settle, SettledCode, Well, service
<1>12. CASE Sleep(p) \/ Poll(p) \/ Expire(p)
  BY <1>1, <1>2, <1>12 DEF Sleep, Poll, Expire
<1>13. CASE Kill(p) \/ Fail(p) \/ Unauthorized(p) \/ LoginTimesOut(p)
  BY <1>1, <1>2, <1>13 DEF Kill, Fail, Unauthorized, LoginTimesOut
<1>14. CASE CreateApp(p) \/ Rotate(p)
  <2>1. run[p].at \in {"create", "rotate"} /\ run[p].exit = None
    BY <1>14 DEF CreateApp, Rotate, Processes, Sound, Placed
  <2>2. ASSUME NEW key, NEW file, Receive(p, key, file) PROVE FALSE
    <3>1. IsRun(run[p])
      BY DEF Processes, Sound, Placed
    <3>2. PICK r : r = With(run[p], [made |-> key, file |-> file])
      OBVIOUS
    <3>3. Becomes(run[p], r, [made |-> key, file |-> file])
      BY <3>1, <3>2, WithFields
    <3>4. IsRun(r) /\ r.exit = None
      BY <2>1, <3>3 DEF Becomes
    <3>5. PICK s, t : s = With(r, [at |-> "load"]) /\ t = Stopped(r, "failed")
      OBVIOUS
    <3>9. Becomes(r, s, [at |-> "load"])
      BY <3>4, <3>5, WithFields
    <3>10. Ended(r, t, "failed")
      BY <3>4, <3>5, StoppedFields
    <3>6. s.exit = None /\ t.exit = "failed"
      BY <3>4, <3>9, <3>10 DEF Becomes, Ended
    <3>7. run' = [run EXCEPT ![p] = s] \/ run' = [run EXCEPT ![p] = t]
      BY <2>2, <3>2, <3>5 DEF Receive
    <3>8. run'[p] = s \/ run'[p] = t
      BY <3>7, OneMoves
    <3> QED BY <3>6, <3>8 DEF None
  <2>3. CASE Rotate(p)
    BY <1>2, <2>2, <2>3 DEF Rotate
  <2>4. CASE CreateApp(p)
    BY <1>2, <2>2, <2>4 DEF CreateApp, Well
  <2> QED BY <1>14, <2>3, <2>4
<1> QED BY <1>3, <1>4, <1>5, <1>6, <1>7, <1>8, <1>9, <1>10, <1>11, <1>12, <1>13, <1>14
        DEF Acts, Step, Awaits

-----------------------------------------------------------------------------
(* What a process tells at its end.                                          *)
Tells(p) ==
  run[p].exit = "ok" =>
    /\ run[p].wait /\ run[p].cmd = "sync" => op[p] = "completed"
    /\ Undisturbed(p) =>
         /\ run[p].made # <<>> =>
              /\ FirstKey(run[p].file) = run[p].made
              /\ run[p].file \in ignored \cup Outside
         /\ run[p].cmd = "update" /\ ~run[p].dry =>
              \A x \in run[p].flags : integrations[run[p].id][x] = New
         /\ run[p].cmd = "delete" /\ run[p].id # None => ~Exists(run[p].id)
         /\ run[p].cmd = "add" /\ ~run[p].dry => run[p].flags \subseteq added
         /\ run[p].cmd = "switch" /\ run[p].id # None => config.workspaceId = run[p].id
         /\ run[p].cmd = "login" => config.apiKey # None

Found(p) == run[p].at = "ignore" /\ Undisturbed(p) => FirstKey(run[p].file) = run[p].made

OutcomeInv == \A p \in Procs : Waiting(run[p], op[p]) /\ Found(p) /\ Tells(p)

(* p is disturbed by a process that is not among those before it.           *)
LEMMA Alone ==
  ASSUME Processes, NEW p \in Procs, NEW q \in Procs \ {p}, Begun(q)',
         q \notin run[p].after, run'[p].after = run[p].after
  PROVE  ~Undisturbed(p)'
BY DEF Undisturbed

(* The process that takes a step cannot have ended, nor be before another.    *)
LEMMA StartsLate ==
  ASSUME Processes, NEW q \in Procs, NEW cmd, NEW at, Start(q, cmd, at), cmd # None
  PROVE  /\ Others(q) /\ ~Begun(q) /\ Begun(q)' /\ \A p \in Procs : q \notin run[p].after
         /\ run'[q].exit = None /\ run'[q].at = at
<1>1. PICK s : s = [Fresh EXCEPT !.cmd = cmd, !.at = at,
                              !.after = {w \in Procs : run[w].at = "ended"},
                              !.before = IF \E w \in Procs : Running(w) THEN <<>>
                                         ELSE [x \in Places |-> At(x)]]
  OBVIOUS
<1>2. run' = [run EXCEPT ![q] = s] /\ ~Begun(q)
  BY <1>1 DEF Start
<1>3. Others(q) /\ run'[q] = s
  BY <1>2, OneMoves
<1>4. s.cmd = cmd /\ s.at = at /\ s.exit = None
  BY <1>1 DEF Fresh
<1>5. run[q].at # "ended"
  BY <1>2 DEF Begun, Processes, Sound, Placed, Fresh
<1> QED BY <1>2, <1>3, <1>4, <1>5 DEF Begun, Processes

(* A step of q, or its start, says nothing against p.                        *)
LEMMA ElsewhereTells ==
  ASSUME Processes, OutcomeInv, NEW p \in Procs, NEW q \in Procs \ {p},
         run'[p] = run[p], op'[p] = op[p], Begun(q)', q \notin run[p].after
  PROVE  Waiting(run'[p], op'[p]) /\ Found(p)' /\ Tells(p)'
<1>1. ~Undisturbed(p)'
  BY Alone
<1> QED BY <1>1 DEF OutcomeInv, Found, Tells

(* Nothing changes for p when only the operations of others do.             *)
LEMMA SameTells ==
  ASSUME OutcomeInv, NEW p \in Procs, UNCHANGED <<run, integrations, added, files>>, op'[p] = op[p]
  PROVE  Waiting(run'[p], op'[p]) /\ Found(p)' /\ Tells(p)'
<1>1. \A f \in Files : FirstKey(f)' = FirstKey(f)
  BY DEF FirstKey, files
<1>2. Undisturbed(p)' <=> Undisturbed(p)
  BY DEF Undisturbed, Begun
<1>3. FirstKey(run[p].file)' = FirstKey(run[p].file)
  BY DEF FirstKey, files
<1> QED BY <1>2, <1>3 DEF OutcomeInv, Found, Tells, Exists, files

(* A process that ends well has done what it says.                          *)
LEMMA WellTells ==
  ASSUME Processes, Stores, OutcomeInv, NEW p \in Procs, Drives(p), Acts(p), Well(p)
  PROVE  Tells(p)'
<1>1. /\ Sound(run[p]) /\ run[p].cmd # None /\ run[p].cmd \in CommandsAt(run[p].at)
      /\ Undisturbed(p)' => Undisturbed(p)
  <2>1. Begun(p) /\ \A q \in Procs : (Begun(q)' <=> Begun(q)) /\ run'[q].after = run[q].after
    BY StepsBegun
  <2>2. Undisturbed(p)' => Undisturbed(p)
    BY <2>1 DEF Undisturbed
  <2> QED BY <2>1, <2>2 DEF Processes, Sound, Placed, Begun
<1>2. /\ run'[p].exit = "ok" /\ run'[p].cmd = run[p].cmd /\ run'[p].made = run[p].made
      /\ run'[p].file = run[p].file /\ run'[p].id = run[p].id /\ run'[p].flags = run[p].flags
      /\ run'[p].dry = run[p].dry /\ run'[p].wait = run[p].wait
  BY DEF Well, Ended
<1>3. run[p].at # "ignore" => run[p].made = <<>>
  BY <1>1 DEF Well, Sound, Placed, KeyPart, Writing
<1>4. SUFFICES
       /\ run[p].wait /\ run[p].cmd = "sync" => op'[p] = "completed"
       /\ Undisturbed(p) =>
            /\ run[p].made # <<>> =>
                 /\ FirstKey(run[p].file)' = run[p].made
                 /\ run[p].file \in ignored' \cup Outside
            /\ run[p].cmd = "update" /\ ~run[p].dry =>
                 \A x \in run[p].flags : integrations'[run[p].id][x] = New
            /\ run[p].cmd = "delete" /\ run[p].id # None => integrations'[run[p].id].type = None
            /\ run[p].cmd = "add" /\ ~run[p].dry => run[p].flags \subseteq added'
            /\ run[p].cmd = "switch" /\ run[p].id # None => config'.workspaceId = run[p].id
            /\ run[p].cmd = "login" => config'.apiKey # None
  BY <1>1, <1>2 DEF Tells, Exists
<1>5. CASE run[p].at \in {"resolve", "choose", "pick", "auth", "look", "app", "create",
                           "config", "request"}
  <2>1. run[p].at = "resolve" => run[p].id = None /\ run[p].flags = {} /\ run[p].wait = FALSE
    BY <1>1 DEF Sound, ChoicePart
  <2>2. run[p].at = "request" => run[p].wait = FALSE /\ run[p].cmd = "sync"
    BY <1>1 DEF Sound, ChoicePart, CommandsAt
  <2>3. /\ run[p].at = "choose" => run[p].flags = {} /\ run[p].cmd = "add"
        /\ run[p].at = "pick" => run[p].dry /\ run[p].cmd = "add"
    BY <1>1 DEF Sound, ChoicePart, CommandsAt, Well
  <2>4. run[p].at \in {"auth", "look", "app", "create", "config"} =>
          run[p].cmd \in {"setup", "create", "logout"}
    BY <1>1 DEF Well, CommandsAt
  <2>5. run[p].at = "resolve" => run[p].cmd # "login"
    BY <1>1 DEF CommandsAt
  <2> QED BY <1>3, <1>5, <2>1, <2>2, <2>3, <2>4, <2>5
<1>6. CASE run[p].at = "wait"
  <2>1. run[p].cmd = "sync" /\ op'[p] = "completed"
    BY <1>1, <1>6 DEF CommandsAt, Well, OutcomeInv, Waiting, Settled
  <2> QED BY <1>3, <1>6, <2>1
<1>7. CASE run[p].at = "patch"
  <2>1. run[p].cmd = "update" /\ Patch(p) /\ (run[p].dry \/ Exists(run[p].id))
    BY <1>1, <1>7 DEF CommandsAt, Well
  <2>2. CASE ~run[p].dry
    <3> DEFINE i == run[p].id
               row == Patched(integrations[i], run[p].flags, run[p].read)
    <3>1. integrations' = [integrations EXCEPT ![i] = row] /\ i \in Ids
      BY <1>1, <1>7, <2>1, <2>2 DEF Patch, Sound, ChoicePart
    <3>2. \A x \in run[p].flags : row[x] = New
      <4>1. /\ run[p].flags \subseteq UpdateFlags
            /\ \/ run[p].read = <<>> /\ run[p].flags \subseteq {"name"}
               \/ run[p].read # <<>> /\ \A x \in run[p].flags \cap Opts : run[p].read[x] = New
        BY <1>1, <1>7 DEF Sound, ChoicePart
      <4> QED BY <4>1 DEF Patched, Opts, UpdateFlags, Fields
    <3> HIDE DEF i, row
    <3>3. integrations'[i] = row
      BY <3>1 DEF Stores
    <3>4. i = run[p].id
      BY DEF i
    <3> QED BY <1>3, <1>7, <2>1, <3>2, <3>3, <3>4
  <2> QED BY <1>3, <1>7, <2>1, <2>2
<1>8. CASE run[p].at = "delete"
  <2>1. run[p].cmd = "delete" /\ Delete(p) /\ Exists(run[p].id) /\ run[p].id \in Ids
    BY <1>1, <1>8 DEF CommandsAt, Well, Sound, ChoicePart
  <2>2. integrations' = [integrations EXCEPT ![run[p].id] = Gone]
    BY <2>1 DEF Delete
  <2>3. Gone.type = None
    BY DEF Gone, Fields
  <2>4. integrations'[run[p].id] = Gone
    BY <2>1, <2>2 DEF Stores
  <2> QED BY <1>3, <1>8, <2>1, <2>3, <2>4
<1>9. CASE run[p].at = "add"
  <2>1. run[p].cmd = "add" /\ added' = added \cup run[p].flags
    BY <1>1, <1>9 DEF CommandsAt, Well, Add
  <2> QED BY <1>3, <1>9, <2>1
<1>10. CASE run[p].at = "fill"
  <2>1. /\ run[p].cmd \in {"login", "setup", "logout", "switch"} /\ config' = run[p].read
        /\ run[p].cmd = "login" => run[p].read.apiKey = "token"
        /\ run[p].cmd = "switch" => run[p].read.workspaceId = run[p].id
    BY <1>1, <1>10 DEF CommandsAt, Well, FillConfig, Sound, ChoicePart
  <2> QED BY <1>3, <1>10, <2>1 DEF None
<1>11. CASE run[p].at = "ignore"
  <2>1. EnsureGitignore(p) /\ run[p].cmd \in {"regenerate", "create", "setup"}
    BY <1>1, <1>11 DEF CommandsAt, Well
  <2>2. Undisturbed(p) => FirstKey(run[p].file) = run[p].made
    BY <1>11 DEF OutcomeInv, Found
  <2>3. /\ FirstKey(run[p].file)' = FirstOf(env'[run'[p].file].keys)
        /\ FirstKey(run[p].file) = FirstOf(env[run[p].file].keys)
    BY DEF FirstKey, FirstOf
  <2>4. FirstKey(run[p].file)' = FirstKey(run[p].file)
    BY <1>2, <2>1, <2>3 DEF EnsureGitignore
  <2>5. ignored' = ignored \cup ({run[p].file} \ Outside)
    BY <2>1 DEF EnsureGitignore
  <2> QED BY <2>1, <2>2, <2>4, <2>5
<1> QED BY <1>5, <1>6, <1>7, <1>8, <1>9, <1>10, <1>11 DEF Well

(* The step of a process keeps its own part of OutcomeInv.                  *)
LEMMA OwnTells ==
  ASSUME Processes, Stores, KeysInv, OutcomeInv, NEW p \in Procs, Acts(p)
  PROVE  Drives(p) /\ Waiting(run'[p], op'[p]) /\ Found(p)' /\ Tells(p)'
<1> DEFINE now == [x \in Places |-> At(x)]
<1>1. Shows(now)
  BY DEF Shows
<1> HIDE DEF now
<1>2. /\ Drives(p) /\ (run'[p].at = "ignore" => Writes(p))
  BY <1>1, EveryStep DEF Moves, Calm, Makes, MakesKey, Receives, Writes, Replaces, Closes,
      Covers, Ended
<1>3. Found(p)'
  BY <1>2, WritesKeeps DEF Found
<1>4. Tells(p)'
  BY <1>2, WellEnded, WellTells DEF Tells
<1> QED BY <1>2, <1>3, <1>4 DEF Drives, OutcomeInv

(* OutcomeInv is inductive, given the invariants before it.                 *)
LEMMA OutcomeKept ==
  ASSUME Processes, Stores, KeysInv, OutcomeInv, [Next]_vars
  PROVE  OutcomeInv'
<1>1. CASE UNCHANGED vars
  BY <1>1, SameTells DEF vars, files, OutcomeInv
<1>2. ASSUME NEW q \in Procs, Work(q) PROVE OutcomeInv'
  <2>1. ASSUME NEW p \in Procs, op'[p] = op[p]
        PROVE  Waiting(run'[p], op'[p]) /\ Found(p)' /\ Tells(p)'
    BY <1>2, <2>1, SameTells DEF Work
  <2>2. ASSUME NEW p \in Procs, op[p] = "running"
        PROVE  Waiting(run'[p], op'[p]) /\ Found(p)' /\ Tells(p)'
    <3>1. Undisturbed(p)' <=> Undisturbed(p)
      BY <1>2 DEF Undisturbed, Begun, Work
    <3>2. FirstKey(run[p].file)' = FirstKey(run[p].file)
      BY <1>2 DEF FirstKey, Work, files
    <3> QED BY <1>2, <2>2, <3>1, <3>2 DEF OutcomeInv, Waiting, Settled, Found, Tells, Work,
        Exists, files
  <2>3. \A p \in Procs : op'[p] = op[p] \/ op[p] = "running"
    BY <1>2 DEF Work, Stores
  <2> QED BY <2>1, <2>2, <2>3 DEF OutcomeInv
<1>3. ASSUME NEW q \in Procs, Begin(q) PROVE OutcomeInv'
  <2>1. PICK cmd, at : Start(q, cmd, at) /\ cmd # None /\ at \notin {"wait", "poll", "ignore"}
    BY <1>3 DEF Begin, StartUpdate, StartDelete, StartAdd, StartRegenerate, StartCreate,
       StartSetup, StartLogin, StartLogout, StartSwitch, StartSync, None
  <2>2. Others(q) /\ Begun(q)' /\ run'[q].exit = None /\ run'[q].at = at
        /\ (\A p \in Procs : q \notin run[p].after)
    BY <2>1, StartsLate
  <2>3. op' = op
    BY <2>1 DEF Start, service
  <2>4. \A p \in Procs \ {q} : Waiting(run'[p], op'[p]) /\ Found(p)' /\ Tells(p)'
    BY <2>2, <2>3, ElsewhereTells DEF Others
  <2>5. Waiting(run'[q], op'[q]) /\ Found(q)' /\ Tells(q)'
    BY <2>1, <2>2 DEF Waiting, Found, Tells, None
  <2> QED BY <2>4, <2>5 DEF OutcomeInv
<1>4. ASSUME NEW q \in Procs, Acts(q) PROVE OutcomeInv'
  <2>1. Drives(q) /\ Waiting(run'[q], op'[q]) /\ Found(q)' /\ Tells(q)'
    BY <1>4, OwnTells
  <2>2. Begun(q)' /\ \A p \in Procs : q \notin run[p].after
    BY <2>1, StepsBegun
  <2>3. \A p \in Procs \ {q} : op'[p] = op[p]
    <3> DEFINE now == [x \in Places |-> At(x)]
    <3>1. Shows(now)
      BY DEF Shows
    <3> HIDE DEF now
    <3>2. Asks(q)
      BY <1>4, <3>1, EveryStep, ServesStores, ConfiguresStores
         DEF Quiet, Asks, Makes, Writes, Closes, service
    <3> QED BY <3>2 DEF Asks, Stores
  <2>4. \A p \in Procs \ {q} : Waiting(run'[p], op'[p]) /\ Found(p)' /\ Tells(p)'
    BY <2>1, <2>2, <2>3, ElsewhereTells DEF Drives, Others
  <2> QED BY <2>1, <2>4 DEF OutcomeInv
<1> QED BY <1>1, <1>2, <1>3, <1>4 DEF Next, Acts

(* packages/cli: a command that reports success has done what it was asked for *)
(* and it stays so unless another command ran at the same time or later; and a *)
(* command that waits for a sync reports success only for one that completed.  *)
THEOREM ExitsTell == Spec => []ExitTellsOutcome
<1> DEFINE IInv == Processes /\ Stores /\ KeysInv /\ OutcomeInv
<1>1. Init => IInv
  <2> SUFFICES ASSUME Init PROVE OutcomeInv
    BY Begins
  <2>1. \A p \in Procs : run[p].at = "idle" /\ run[p].exit = None
    BY Begins DEF Fresh
  <2> QED BY <2>1 DEF OutcomeInv, Waiting, Found, Tells, None
<1>2. IInv /\ [Next]_vars => IInv'
  BY ProcessesKept, StoresKept, KeysKept, OutcomeKept
<1>3. IInv => ExitTellsOutcome
  BY DEF OutcomeInv, Tells, ExitTellsOutcome
<1> QED BY <1>1, <1>2, <1>3, PTL DEF Spec

-----------------------------------------------------------------------------
(* The places that each kind of change leaves as they are.                    *)
Now == [x \in Places |-> At(x)]

(* Every place is of one kind.                                              *)
LEMMA PlaceKinds ==
  ASSUME NEW x \in Places
  PROVE  \/ x[1] \in Ids /\ x[2] \in Fields /\ x = <<x[1], x[2]>>
         \/ x[1] = "config" /\ x[2] \in {"apiKey", "workspaceId"} /\ x = <<x[1], x[2]>>
         \/ x[1] = "added" /\ x[2] \in Scanned /\ x = <<x[1], x[2]>>
         \/ x[1] \in {"keys", "lines", "ignored"} /\ x[2] \in Files /\ x = <<x[1], x[2]>>
BY DEF Places

(* One lemma for each kind of change.                                       *)
LEMMA SamePlaces ==
  ASSUME UNCHANGED <<integrations, added, files>>
  PROVE  \A x \in Places : At(x)' = At(x)
BY DEF At, files

(* The configuration.                                                       *)
LEMMA ConfigOnly ==
  ASSUME UNCHANGED <<integrations, added, env, ignored>>
  PROVE  \A x \in Places \ ConfigPlaces : At(x)' = At(x)
<1> SUFFICES ASSUME NEW x \in Places, x \notin ConfigPlaces PROVE At(x)' = At(x)
  OBVIOUS
<1>1. x[1] # "config"
  BY SpareAreIds, PlaceKinds DEF ConfigPlaces, Ids
<1> QED BY <1>1 DEF At

(* The row of an integration.                                               *)
LEMMA RowsOnly ==
  ASSUME UNCHANGED <<added, files>>, NEW i, \A j \in Ids \ {i} : integrations'[j] = integrations[j]
  PROVE  \A x \in Places \ ({i} \X Fields) : At(x)' = At(x)
<1> SUFFICES ASSUME NEW x \in Places, x \notin {i} \X Fields PROVE At(x)' = At(x)
  OBVIOUS
<1>1. x[1] \in Ids => x[1] # i
  BY SpareAreIds, PlaceKinds DEF Ids
<1>2. CASE x[1] \in Ids
  <2>1. integrations'[x[1]] = integrations[x[1]]
    BY <1>1, <1>2
  <2> QED BY <1>2, <2>1 DEF At
<1>3. CASE x[1] \notin Ids
  <2>1. x[1] \in {"config", "added", "keys", "lines", "ignored"}
    BY <1>3, PlaceKinds
  <2>2. config' = config /\ added' = added /\ env' = env /\ ignored' = ignored
    BY DEF files
  <2> QED BY <1>3, <2>1, <2>2 DEF At
<1> QED BY <1>2, <1>3

(* Some fields of a row.                                                    *)
LEMMA FieldsOnly ==
  ASSUME UNCHANGED <<added, files>>, NEW i \in Ids, NEW what,
         \A j \in Ids \ {i} : integrations'[j] = integrations[j],
         \A y \in Fields \ what : integrations'[i][y] = integrations[i][y]
  PROVE  \A x \in Places \ ({i} \X what) : At(x)' = At(x)
<1> SUFFICES ASSUME NEW x \in Places, x \notin {i} \X what PROVE At(x)' = At(x)
  OBVIOUS
<1>1. x[1] \in Ids => x[1] # i \/ x[2] \in Fields \ what
  BY SpareAreIds, PlaceKinds DEF Ids
<1>2. CASE x[1] \in Ids
  <2>1. integrations'[x[1]][x[2]] = integrations[x[1]][x[2]]
    BY <1>1, <1>2
  <2> QED BY <1>2, <2>1 DEF At
<1>3. CASE x[1] \notin Ids
  <2>1. x[1] \in {"config", "added", "keys", "lines", "ignored"}
    BY <1>3, PlaceKinds
  <2>2. config' = config /\ added' = added /\ env' = env /\ ignored' = ignored
    BY DEF files
  <2> QED BY <1>3, <2>1, <2>2 DEF At
<1> QED BY <1>2, <1>3

(* The collections that Contfu has.                                         *)
LEMMA AddedOnly ==
  ASSUME UNCHANGED <<integrations, files>>, NEW refs, added' = added \cup refs
  PROVE  \A x \in Places \ ({"added"} \X refs) : At(x)' = At(x)
<1> SUFFICES ASSUME NEW x \in Places, x \notin {"added"} \X refs PROVE At(x)' = At(x)
  OBVIOUS
<1>1. x[1] = "added" => x[2] \notin refs
  BY PlaceKinds
<1>2. x[1] = "added" => ((x[2] \in added') <=> (x[2] \in added))
  BY <1>1
<1> QED BY <1>2 DEF At, files

(* .gitignore.                                                              *)
LEMMA IgnoredOnly ==
  ASSUME UNCHANGED <<integrations, added, config, env>>, NEW f,
         ignored' = ignored \cup ({f} \ Outside)
  PROVE  \A x \in Places \ {<<"ignored", f>>} : At(x)' = At(x)
<1> SUFFICES ASSUME NEW x \in Places, x # <<"ignored", f>> PROVE At(x)' = At(x)
  OBVIOUS
<1>1. x[1] = "ignored" => x[2] # f
  BY PlaceKinds
<1>2. x[1] = "ignored" => ((x[2] \in ignored') <=> (x[2] \in ignored))
  BY <1>1
<1> QED BY <1>2 DEF At

(* An env file.                                                             *)
LEMMA EnvOnly ==
  ASSUME UNCHANGED <<integrations, added, config, ignored>>, NEW f,
         \A g \in Files \ {f} : env'[g] = env[g]
  PROVE  \A x \in Places \ {<<"keys", f>>, <<"lines", f>>} : At(x)' = At(x)
<1> SUFFICES ASSUME NEW x \in Places, x # <<"keys", f>>, x # <<"lines", f>> PROVE At(x)' = At(x)
  OBVIOUS
<1>1. x[1] \in {"keys", "lines"} => x[2] \in Files \ {f}
  BY SpareAreIds, PlaceKinds DEF Ids
<1>2. x[1] \in {"keys", "lines"} => env'[x[2]] = env[x[2]]
  BY <1>1
<1> QED BY <1>2 DEF At

(* The place of a field of a row is that of no other kind.                    *)
LEMMA IdsAreApart ==
  /\ \A i \in Ids : i \notin {"config", "added", "keys", "lines", "ignored"}
  /\ \A i \in Ids : \A y : <<i, y>> \notin ConfigPlaces
BY SpareAreIds DEF Ids, ConfigPlaces

(* Now is what is at the places.                                            *)
LEMMA NowShows == /\ \A x \in Places : Now[x] = At(x) /\ Now'[x] = At(x)'
                  /\ Shows(Now)
BY DEF Now, Shows, Places

(* What the key of an application is about.                                  *)
RowPlaces(r) ==
  CASE r.cmd = "regenerate" -> Meant(r) \X {"key"}
    [] r.cmd = "create"     -> NewApps(r)
    [] r.cmd = "setup"      -> NewApps(r) \cup (Ids \X {"key"})

(* The commands that make a key name the row and the file.                  *)
LEMMA RowsAreNamed ==
  ASSUME NEW r, r.cmd \in {"regenerate", "create", "setup"}
  PROVE  /\ RowPlaces(r) \subseteq Named(r) /\ KeyPlaces(r) \subseteq Named(r)
         /\ r.cmd = "setup" => ConfigPlaces \subseteq Named(r)
BY DEF RowPlaces, Named

(* A key that is made changes what its command names.                       *)
LEMMA MakesNamed ==
  ASSUME Processes, Stores, NEW p \in Procs, NEW i \in Ids, NEW n \in Nat, MakesKey(p, i, n),
         UNCHANGED <<added, op, files>>, Snap(run[p], Now)
  PROVE  \A x \in Places \ RowPlaces(run[p]) : At(x)' = At(x)
<1>1. /\ Sound(run[p]) /\ run[p].at \in {"create", "rotate"} /\ run[p].cmd # None
      /\ run[p].cmd \in CommandsAt(run[p].at)
  BY StepsBegun DEF MakesKey, Receives, Processes, Sound, Placed, Begun
<1>2. /\ integrations = [j \in Ids |-> integrations[j]]
      /\ \A j \in Ids \ {i} : integrations'[j] = integrations[j]
  BY MakesStores DEF Stores
<1>3. CASE run[p].at = "create"
  <2>1. ~Exists(i)
    BY <1>3 DEF MakesKey
  <2>2. run[p].cmd \in {"create", "setup"}
    BY <1>1, <1>3 DEF CommandsAt
  <2>3. <<i, "type">> \in Places /\ At(<<i, "type">>) = None
    BY <2>1, AtPlaces DEF Fields, Exists
  <2>4. Touched(run[p]) \subseteq ConfigPlaces /\ run[p].at # "ended"
    BY <1>3 DEF Touched, Writing
  <2>5. <<i, "type">> \notin Touched(run[p])
    BY <2>4, IdsAreApart
  <2>6. run[p].before[<<i, "type">>] = None
    BY <2>3, <2>4, <2>5, NowShows DEF Snap
  <2>7. {i} \X Fields \subseteq RowPlaces(run[p])
    BY <2>2, <2>6 DEF RowPlaces, NewApps
  <2>8. \A x \in Places \ ({i} \X Fields) : At(x)' = At(x)
    BY <1>2, RowsOnly
  <2> QED BY <2>7, <2>8
<1>4. CASE run[p].at = "rotate"
  <2>1. PICK row : /\ integrations' = [integrations EXCEPT ![i] = row] /\ i = run[p].id
                   /\ \A x \in Fields \ {"key"} : row[x] = integrations[i][x]
    BY <1>4 DEF MakesKey
  <2>2. integrations'[i] = row
    BY <1>2, <2>1
  <2>3. \A y \in Fields \ {"key"} : integrations'[i][y] = integrations[i][y]
    BY <2>1, <2>2
  <2>4. run[p].cmd \in {"regenerate", "setup"}
    BY <1>1, <1>4 DEF CommandsAt
  <2>5. run[p].cmd = "regenerate" => i \in Meant(run[p])
    BY <1>4, <2>1 DEF Snap, Targets
  <2>6. {i} \X {"key"} \subseteq RowPlaces(run[p])
    BY <2>4, <2>5 DEF RowPlaces
  <2>7. \A x \in Places \ ({i} \X {"key"}) : At(x)' = At(x)
    <3> DEFINE what == {"key"}
    <3>1. \A y \in Fields \ what : integrations'[i][y] = integrations[i][y]
      BY <2>3
    <3> HIDE DEF what
    <3>2. \A x \in Places \ ({i} \X what) : At(x)' = At(x)
      BY <1>2, <3>1, FieldsOnly
    <3> QED BY <3>2 DEF what
  <2> QED BY <2>6, <2>7
<1> QED BY <1>1, <1>3, <1>4

(* A process that goes on has still found the places as they were.            *)
LEMMA OwnSnap ==
  ASSUME Processes, Stores, NEW p \in Procs, Acts(p), Snap(run[p], Now)
  PROVE  Snap(run'[p], Now')
<1>0. SUFFICES ASSUME run'[p].at # "ended" PROVE Snap(run'[p], Now')
  BY DEF Snap
<1>1. CASE Moves(p, Now) /\ Quiet(p)
  <2>1. \A x \in Places : Now'[x] = Now[x]
    BY <1>1, SamePlaces, NowShows DEF Quiet
  <2>2. Now' = Now
    BY <2>1 DEF Now
  <2> QED BY <1>1, <2>2 DEF Moves
<1>2. CASE Moves(p, Now) /\ Serves(p)
  <2>1. \A code : End(p, code) => run'[p].at = "ended"
    BY Ends DEF Ended
  <2> QED BY <1>0, <1>2, <2>1 DEF Serves, Patch, Delete, Add, Answered
<1>3. CASE TruncateConfig(p)
  <2>1. Becomes(run[p], run'[p], [at |-> "fill"])
    BY <1>3, Goes DEF TruncateConfig
  <2>2. /\ run[p].at = "truncate" /\ run'[p].at = "fill" /\ run'[p].cmd = run[p].cmd
        /\ run'[p].before = run[p].before /\ run'[p].read = run[p].read
    BY <1>3, <2>1 DEF Becomes, TruncateConfig
  <2>3. \A x \in Places \ ConfigPlaces : At(x)' = At(x)
    BY <1>3, ConfigOnly DEF TruncateConfig, service
  <2>4. \A x \in Places \ ConfigPlaces : Now[x] = run[p].before[x]
    BY <2>2 DEF Snap, Touched, Writing
  <2>5. \A x \in Places \ Touched(run'[p]) : Now'[x] = run'[p].before[x]
    BY <2>2, <2>3, <2>4, NowShows DEF Touched, Writing
  <2> QED BY <2>2, <2>5 DEF Snap, Targets, Writing
<1>4. CASE FillConfig(p)
  <2>1. run[p].cmd = "setup" /\ Continue(p, [at |-> "look", read |-> <<>>])
    BY <1>0, <1>4, Ends DEF FillConfig, Ended
  <2>2. Becomes(run[p], run'[p], [at |-> "look", read |-> <<>>])
    BY <2>1, Goes
  <2>3. /\ run[p].at = "fill" /\ run'[p].at = "look" /\ run'[p].cmd = run[p].cmd
        /\ run'[p].before = run[p].before
    BY <1>4, <2>2 DEF Becomes, FillConfig
  <2>4. \A x \in Places \ ConfigPlaces : At(x)' = At(x)
    BY <1>4, ConfigOnly DEF FillConfig, service
  <2>5. \A x \in Places \ ConfigPlaces : Now[x] = run[p].before[x]
    BY <2>3 DEF Snap, Touched, Writing
  <2>6. \A x \in Places \ Touched(run'[p]) : Now'[x] = run'[p].before[x]
    BY <2>1, <2>3, <2>4, <2>5, NowShows DEF Touched, Writing
  <2> QED BY <2>1, <2>3, <2>6 DEF Snap, Targets, Writing
<1>5. CASE Makes(p)
  <2>1. PICK i \in Ids, n \in Nat : MakesKey(p, i, n)
    BY <1>5 DEF Makes
  <2>2. /\ Drives(p) /\ run'[p].at = "load" /\ run'[p].before = run[p].before
        /\ run'[p].id = run[p].id /\ run'[p].ref = run[p].ref
        /\ run[p].at \in {"create", "rotate"} /\ run'[p].cmd = run[p].cmd
    BY <1>0, <2>1 DEF MakesKey, Receives, Drives
  <2>3. run[p].cmd \in {"regenerate", "create", "setup"}
    BY <2>2, StepsBegun DEF Processes, Sound, Placed, CommandsAt, Begun
  <2>4. Meant(run'[p]) = Meant(run[p])
    BY <2>2, SameMeaning
  <2>5. RowPlaces(run'[p]) = RowPlaces(run[p])
    BY <2>2, <2>3, <2>4 DEF RowPlaces, NewApps
  <2>6. \A x \in Places \ RowPlaces(run[p]) : At(x)' = At(x)
    BY <1>5, <2>1, MakesNamed DEF Makes
  <2>7. /\ RowPlaces(run[p]) \subseteq Named(run'[p])
        /\ run[p].cmd = "setup" => ConfigPlaces \subseteq Named(run'[p])
    BY <2>2, <2>3, <2>5, RowsAreNamed
  <2>8. Touched(run'[p]) = Named(run'[p]) /\ Touched(run[p]) \subseteq Named(run'[p])
    BY <2>2, <2>7 DEF Touched, Writing
  <2>9. \A x \in Places \ Touched(run'[p]) : Now'[x] = run'[p].before[x]
    BY <2>2, <2>6, <2>7, <2>8, NowShows DEF Snap
  <2>10. run'[p].cmd = "regenerate" => run'[p].id \in Meant(run'[p])
    <3> SUFFICES ASSUME run[p].cmd = "regenerate" PROVE run[p].id \in Meant(run[p])
      BY <2>2, <2>4
    <3>1. run[p].at = "rotate"
      BY <2>2, StepsBegun DEF Processes, Sound, Placed, CommandsAt, Begun
    <3> QED BY <3>1 DEF Snap, Targets
  <2> QED BY <2>2, <2>3, <2>9, <2>10 DEF Snap
<1>6. CASE Writes(p)
  <2> DEFINE f == run[p].file
  <2>1. /\ run[p].at = "rename" /\ run'[p].at = "ignore" /\ run'[p].before = run[p].before
        /\ run'[p].id = run[p].id /\ run'[p].ref = run[p].ref /\ run'[p].cmd = run[p].cmd
        /\ run'[p].file = f /\ run'[p].flags = run[p].flags /\ run'[p].dry = run[p].dry
        /\ f \in Files
    BY <1>6 DEF Writes, Replaces, Drives
  <2>2. run[p].cmd \in {"regenerate", "create", "setup"}
    BY <1>6, <2>1, StepsBegun DEF Writes, Replaces, Processes, Sound, Placed, CommandsAt, Begun
  <2>3. Meant(run'[p]) = Meant(run[p]) /\ Named(run'[p]) = Named(run[p])
    BY <2>1, SameMeaning
  <2>12. /\ \A g \in Files \ {f} : env'[g] = env[g]
         /\ env'[f] = [keys |-> <<run[p].made>>, lines |-> run[p].read.lines]
    BY <1>6, WritesStores
  <2>4. /\ \A g \in Files \ {f} : env'[g] = env[g]
        /\ env'[f].lines = run[p].read.lines
    BY <2>12
  <2>5. \A x \in Places \ {<<"keys", f>>, <<"lines", f>>} : At(x)' = At(x)
    BY <1>6, <2>4, EnvOnly DEF Writes, service
  <2>6. <<"lines", f>> \in Places /\ At(<<"lines", f>>)' = run[p].before[<<"lines", f>>]
    <3>1. run[p].read.lines = run[p].before[<<"lines", f>>]
      BY <2>1 DEF Snap
    <3>2. PICK g : g = f
      OBVIOUS
    <3>3. At(<<"lines", g>>)' = env'[g].lines /\ <<"lines", g>> \in Places
      BY <2>1, <3>2, SpareAreIds DEF At, Places, Ids
    <3> QED BY <2>1, <2>4, <3>1, <3>2, <3>3 DEF At
  <2>7. <<"keys", f>> \in Named(run'[p])
    BY <2>1, <2>2, RowsAreNamed DEF KeyPlaces
  <2>8. Touched(run'[p]) = Named(run'[p]) /\ Touched(run[p]) = Named(run[p])
    BY <2>1 DEF Touched, Writing
  <2>9. \A x \in Places \ Touched(run[p]) : At(x) = run[p].before[x]
    BY <2>1, NowShows DEF Snap
  <2>10. \A x \in Places \ Touched(run'[p]) : Now'[x] = run'[p].before[x]
    BY <2>1, <2>3, <2>5, <2>6, <2>7, <2>8, <2>9, NowShows
  <2>11. run[p].cmd = "regenerate" => run[p].id \in Meant(run[p])
    BY <2>1 DEF Snap, Targets, Writing
  <2> QED BY <2>1, <2>2, <2>3, <2>10, <2>11 DEF Snap
<1>7. CASE Closes(p)
  BY <1>0, <1>7 DEF Closes, Covers, Ended
<1> QED BY <1>1, <1>2, <1>3, <1>4, <1>5, <1>6, <1>7, EveryStep, NowShows DEF Configures

(* Who runs alone has found every place as it was, but those it has written.  *)
NamedInv == \A p \in Procs : Running(p) /\ Undisturbed(p) => Snap(run[p], Now)

(* NamedInv is inductive, given Processes and Stores.                       *)
LEMMA NamedKept ==
  ASSUME Processes, Stores, NamedInv, [Next]_vars
  PROVE  NamedInv'
<1>1. CASE UNCHANGED vars \/ \E q \in Procs : Work(q)
  <2>1. UNCHANGED <<integrations, added, files, run>>
    BY <1>1 DEF vars, Work, files
  <2>2. \A x \in Places : At(x)' = At(x)
    BY <2>1, SamePlaces
  <2>3. Now' = Now
    BY <2>2 DEF Now
  <2>4. \A p \in Procs : (Running(p)' <=> Running(p)) /\ (Undisturbed(p)' <=> Undisturbed(p))
    BY <2>1 DEF Running, Undisturbed, Begun
  <2> QED BY <2>1, <2>3, <2>4 DEF NamedInv
<1>2. ASSUME NEW q \in Procs, Begin(q) PROVE NamedInv'
  <2>1. PICK cmd, at : Start(q, cmd, at) /\ cmd \in CommandsAt(at) /\ cmd # None
                       /\ at \in {"resolve", "create", "package", "auth", "browser", "paste", "config"}
                       /\ (at = "create" => cmd = "create")
    BY <1>2 DEF Begin, StartUpdate, StartDelete, StartAdd, StartRegenerate, StartCreate,
       StartSetup, StartLogin, StartLogout, StartSwitch, StartSync, CommandsAt, None
  <2>2. /\ Others(q) /\ ~Begun(q) /\ Begun(q)' /\ (\A p \in Procs : q \notin run[p].after)
    BY <2>1, StartsLate
  <2>3. /\ run'[q].at = at /\ run'[q].after = {p \in Procs : run[p].at = "ended"}
        /\ run'[q].before = IF \E p \in Procs : Running(p) THEN <<>> ELSE [x \in Places |-> At(x)]
    BY <2>1, StartMoved
  <2>4. ASSUME NEW p \in Procs \ {q}, Running(p)', Undisturbed(p)' PROVE FALSE
    BY <2>2, <2>4, Alone DEF Others
  <2>5. ASSUME Undisturbed(q)' PROVE Snap(run'[q], Now')
    <3>1. \A p \in Procs \ {q} : Begun(p) => run[p].at = "ended"
      BY <2>2, <2>3, <2>5 DEF Undisturbed, Others, Begun
    <3>2. \A p \in Procs : ~Begun(p) => run[p].at = "idle"
      BY DEF Processes, Sound, Placed, Begun, Fresh
    <3>3. \A p \in Procs : ~Running(p)
      BY <2>2, <3>1, <3>2 DEF Running
    <3>4. run'[q].before = Now
      BY <2>3, <3>3 DEF Now
    <3>5. \A x \in Places : At(x)' = At(x)
      BY <2>1, SamePlaces DEF Start, service
    <3>6. Now' = Now
      BY <3>5 DEF Now
    <3> QED BY <2>1, <2>3, <3>4, <3>6 DEF Snap, Targets, Writing
  <2> QED BY <2>4, <2>5 DEF NamedInv
<1>3. ASSUME NEW q \in Procs, Acts(q) PROVE NamedInv'
  <2>1. Drives(q)
    BY <1>3, NowShows, EveryStep DEF Moves, Makes, MakesKey, Receives, Writes, Replaces, Closes,
        Covers
  <2>2. /\ Begun(q)' /\ (\A p \in Procs : q \notin run[p].after)
        /\ (\A p \in Procs : (Begun(p)' <=> Begun(p)) /\ run'[p].after = run[p].after)
    BY <2>1, StepsBegun
  <2>3. ASSUME NEW p \in Procs \ {q}, Running(p)', Undisturbed(p)' PROVE FALSE
    BY <2>2, <2>3, Alone
  <2>4. ASSUME Undisturbed(q)' PROVE Snap(run'[q], Now')
    <3>1. Undisturbed(q)
      BY <2>2, <2>4 DEF Undisturbed
    <3>2. Snap(run[q], Now)
      BY <2>1, <3>1 DEF NamedInv, Drives
    <3> QED BY <1>3, <3>2, OwnSnap
  <2> QED BY <2>3, <2>4 DEF NamedInv
<1> QED BY <1>1, <1>2, <1>3 DEF Next, Acts

(* Nobody runs at first.                                                    *)
LEMMA NamedBegins ==
  ASSUME Init
  PROVE  NamedInv
BY Begins DEF NamedInv, Running, Fresh

-----------------------------------------------------------------------------
(* The step that ends a process has changed what the process names.           *)
LEMMA TouchedIsNamed ==
  ASSUME NEW r, Sound(r), r.cmd # None
  PROVE  Touched(r) \subseteq Named(r) \cup (IF r.at = "fill" THEN ConfigPlaces ELSE {})
<1>1. CASE r.at \in Writing
  BY <1>1 DEF Touched
<1>2. CASE r.at \notin Writing
  BY <1>2, RowsAreNamed DEF Touched
<1> QED BY <1>1, <1>2

(* update, delete and add change what they name.                            *)
LEMMA ServesNamed ==
  ASSUME Processes, Stores, NEW p \in Procs, Running(p), Serves(p), Snap(run[p], Now)
  PROVE  \A x \in Places \ Named(run[p]) : At(x)' = run[p].before[x]
<1>1. /\ Sound(run[p]) /\ run[p].cmd # None /\ run[p].cmd \in CommandsAt(run[p].at)
      /\ run[p].at \in {"patch", "delete", "add"}
  BY DEF Serves, Patch, Delete, Add, Processes, Sound, Placed, Running, Fresh
<1>2. \A x \in Places : At(x) = run[p].before[x]
  <2>1. Touched(run[p]) = {}
    BY <1>1 DEF Touched, Writing, CommandsAt
  <2> QED BY <1>1, <2>1, NowShows DEF Snap
<1>3. CASE UNCHANGED <<integrations, added, files>>
  BY <1>2, <1>3, SamePlaces
<1>4. CASE Patch(p) /\ ~UNCHANGED integrations
  <2> DEFINE i == run[p].id
             row == Patched(integrations[i], run[p].flags, run[p].read)
  <2>1. /\ integrations' = [integrations EXCEPT ![i] = row] /\ i \in Ids
        /\ UNCHANGED <<added, files>> /\ ~run[p].dry /\ run[p].at = "patch" /\ run[p].cmd = "update"
    BY <1>1, <1>4 DEF Patch, Sound, ChoicePart, CommandsAt
  <2>2. i \in Meant(run[p])
    BY <2>1 DEF Snap, Targets
  <2>3. \A x \in Opts \cup Fields : <<i, x>> \in Places /\ At(<<i, x>>) = integrations[i][x]
    BY <2>1, AtPlaces DEF Opts, Fields
  <2>4. run[p].read # <<>> => \A x \in Opts \ run[p].flags : run[p].read[x] = integrations[i][x]
    BY <1>2, <2>1, <2>3 DEF Snap
  <2>5. \A y \in Fields \ run[p].flags : row[y] = integrations[i][y]
    BY <2>4 DEF Patched
  <2> HIDE DEF row
  <2>6. /\ integrations'[i] = row
        /\ \A j \in Ids \ {i} : integrations'[j] = integrations[j]
    BY <2>1 DEF Stores
  <2>7. \A y \in Fields \ run[p].flags : integrations'[i][y] = integrations[i][y]
    BY <2>5, <2>6
  <2>8. \A x \in Places \ ({i} \X run[p].flags) : At(x)' = At(x)
    BY <2>1, <2>6, <2>7, FieldsOnly
  <2>9. {i} \X run[p].flags \subseteq Named(run[p])
    BY <2>1, <2>2 DEF Named
  <2> QED BY <1>2, <2>8, <2>9
<1>5. CASE Delete(p) /\ ~UNCHANGED integrations
  <2> DEFINE i == run[p].id
  <2>1. /\ integrations' = [integrations EXCEPT ![i] = Gone] /\ i \in Ids
        /\ UNCHANGED <<added, files>> /\ run[p].at = "delete" /\ run[p].cmd = "delete"
    BY <1>1, <1>5 DEF Delete, Sound, ChoicePart, CommandsAt
  <2>2. i \in Meant(run[p])
    BY <2>1 DEF Snap, Targets
  <2>3. \A j \in Ids \ {i} : integrations'[j] = integrations[j]
    BY <2>1 DEF Stores
  <2>4. \A x \in Places \ ({i} \X Fields) : At(x)' = At(x)
    BY <2>1, <2>3, RowsOnly
  <2>5. {i} \X Fields \subseteq Named(run[p])
    BY <2>1, <2>2 DEF Named
  <2> QED BY <1>2, <2>4, <2>5
<1>6. CASE Add(p) /\ ~UNCHANGED added
  <2>1. /\ added' = added \cup run[p].flags /\ UNCHANGED <<integrations, files>>
        /\ run[p].cmd = "add" /\ ~run[p].dry
    BY <1>1, <1>6 DEF Add, CommandsAt, Sound, ChoicePart
  <2>2. \A x \in Places \ ({"added"} \X run[p].flags) : At(x)' = At(x)
    BY <2>1, AddedOnly
  <2>3. {"added"} \X run[p].flags \subseteq Named(run[p])
    BY <2>1 DEF Named
  <2> QED BY <1>2, <2>2, <2>3
<1> QED BY <1>3, <1>4, <1>5, <1>6 DEF Serves, Patch, Delete, Add

(* So does the command that fills the configuration.                        *)
LEMMA FillNamed ==
  ASSUME Processes, Stores, NEW p \in Procs, Running(p), FillConfig(p), Snap(run[p], Now)
  PROVE  \A x \in Places \ Named(run[p]) : At(x)' = run[p].before[x]
<1>1. /\ Sound(run[p]) /\ run[p].at = "fill"
      /\ run[p].cmd \in {"login", "setup", "logout", "switch"}
  BY DEF FillConfig, Processes, Sound, Placed, Running, Fresh, CommandsAt
<1>2. \A x \in Places \ ConfigPlaces : At(x)' = run[p].before[x]
  <2>1. \A x \in Places \ ConfigPlaces : At(x)' = At(x)
    BY ConfigOnly DEF FillConfig, service
  <2>2. Touched(run[p]) = ConfigPlaces
    BY <1>1 DEF Touched, Writing
  <2> QED BY <1>1, <2>1, <2>2, NowShows DEF Snap
<1>3. ASSUME NEW y \in {"apiKey", "workspaceId"}, <<"config", y>> \notin Named(run[p])
      PROVE  At(<<"config", y>>)' = run[p].before[<<"config", y>>]
  <2>1. \/ run[p].cmd = "logout" /\ y = "workspaceId"
        \/ run[p].cmd = "switch" /\ y = "apiKey"
    BY <1>1, <1>3 DEF Named, ConfigPlaces
  <2>2. At(<<"config", y>>)' = config'[y]
    BY SpareAreIds DEF At, Ids
  <2>3. config' = run[p].read
    BY DEF FillConfig
  <2> QED BY <1>1, <2>1, <2>2, <2>3 DEF Snap
<1>4. \A x \in ConfigPlaces \ Named(run[p]) : At(x)' = run[p].before[x]
  BY <1>3 DEF ConfigPlaces
<1> QED BY <1>2, <1>4

(* So does every step that ends a process.                                  *)
LEMMA EndNamed ==
  ASSUME Processes, Stores, NEW p \in Procs, Acts(p), Drives(p), run'[p].exit # None,
         Snap(run[p], Now), NEW torn,
         torn = IF run'[p].exit = "killed" /\ run[p].at = "fill" THEN ConfigPlaces ELSE {}
  PROVE  \A x \in Places \ (Named(run[p]) \cup torn) : At(x)' = run[p].before[x]
<1>1. /\ Sound(run[p]) /\ run[p].cmd # None /\ run[p].cmd \in CommandsAt(run[p].at)
      /\ Running(p) /\ run[p].at # "ended" /\ run'[p].at = "ended"
  <2>1. Sound(run'[p])
    BY DEF Drives, Processes
  <2> QED BY <2>1, StepsBegun DEF Drives, Running, Processes, Sound, Placed, Begun
<1>2. \A x \in Places \ Touched(run[p]) : At(x) = run[p].before[x]
  BY <1>1, NowShows DEF Snap
<1>3. Touched(run[p]) \subseteq Named(run[p]) \cup (IF run[p].at = "fill" THEN ConfigPlaces ELSE {})
  BY <1>1, TouchedIsNamed
<1>4. CASE FillConfig(p)
  BY <1>1, <1>4, FillNamed
<1>5. CASE Serves(p)
  BY <1>1, <1>5, ServesNamed
<1>6. CASE Quiet(p) /\ ~FillConfig(p)
  <2>1. \A x \in Places : At(x)' = At(x)
    BY <1>6, SamePlaces DEF Quiet
  <2>2. run[p].at = "fill" => Kill(p)
    BY <1>6 DEF Acts, Step, Fail, Requests, Unauthorized, Resolve, ReadFlags, ReadExisting, Patch,
       Delete, Choose, Scan, Add, CheckAuth, LookForKey, ListApps, CreateApp, Rotate, LoadEnv,
       ReplaceEnv, EnsureGitignore, LoginTimesOut, ExchangeCode, ReadConfig, TruncateConfig,
       Request, Settle, Expire, Sleep, Poll, Awaits, Authorize, OpenerEnds, PickPackage, PickApp,
       PickRefs
  <2>3. run[p].at = "fill" => run'[p].exit = "killed"
    BY <2>2, Ends DEF Kill, Ended
  <2> QED BY <1>2, <1>3, <2>1, <2>3
<1>7. CASE TruncateConfig(p)
  <2>1. Becomes(run[p], run'[p], [at |-> "fill"])
    BY <1>7, Goes DEF TruncateConfig
  <2> QED BY <1>1, <2>1 DEF Becomes
<1>8. CASE Makes(p)
  <2>1. PICK i \in Ids, n \in Nat : MakesKey(p, i, n)
    BY <1>8 DEF Makes
  <2>2. run[p].at \in {"create", "rotate"}
    BY <2>1 DEF MakesKey, Receives
  <2>3. run[p].cmd \in {"regenerate", "create", "setup"}
    BY <1>1, <2>2 DEF CommandsAt
  <2>4. \A x \in Places \ RowPlaces(run[p]) : At(x)' = At(x)
    BY <1>8, <2>1, MakesNamed DEF Makes
  <2> QED BY <1>2, <1>3, <2>2, <2>3, <2>4, RowsAreNamed
<1>9. CASE Writes(p)
  BY <1>1, <1>9 DEF Writes, Replaces
<1>10. CASE Closes(p)
  <2>1. /\ run[p].at = "ignore" /\ ignored' = ignored \cup ({run[p].file} \ Outside)
        /\ UNCHANGED <<integrations, added, config, env>>
        /\ run[p].cmd \in {"regenerate", "create", "setup"}
    BY <1>10 DEF Closes, Covers, service
  <2>2. \A x \in Places \ {<<"ignored", run[p].file>>} : At(x)' = At(x)
    BY <2>1, IgnoredOnly
  <2>3. <<"ignored", run[p].file>> \in Named(run[p])
    BY <2>1, RowsAreNamed DEF KeyPlaces
  <2> QED BY <1>2, <1>3, <2>1, <2>2, <2>3
<1> QED BY <1>4, <1>5, <1>6, <1>7, <1>8, <1>9, <1>10, EveryStep, NowShows DEF Configures

(* The step that ends p is a step of p.                                     *)
LEMMA StepNamed ==
  ASSUME Processes, Stores, NamedInv, [Next]_vars, NEW p \in Procs, NEW torn,
         run[p].exit = None, run'[p].exit # None, Undisturbed(p),
         torn = IF run'[p].exit = "killed" /\ run[p].at = "fill" THEN ConfigPlaces ELSE {}
  PROVE  \A x \in Places \ (Named(run[p]) \cup torn) : At(x)' = run[p].before[x]
<1>1. ~UNCHANGED vars /\ \A q \in Procs : ~Work(q)
  BY DEF vars, Work
<1>2. ASSUME NEW q \in Procs, Begin(q) PROVE FALSE
  <2>1. PICK cmd, at : Start(q, cmd, at) /\ cmd # None
    BY <1>2 DEF Begin, StartUpdate, StartDelete, StartAdd, StartRegenerate, StartCreate,
       StartSetup, StartLogin, StartLogout, StartSwitch, StartSync, None
  <2>2. Others(q) /\ run'[q].exit = None
    BY <2>1, StartsLate
  <2> QED BY <2>2 DEF Others
<1>3. ASSUME NEW q \in Procs, Acts(q) PROVE q = p /\ Drives(p)
  <2>1. Drives(q)
    BY <1>3, NowShows, EveryStep DEF Moves, Makes, MakesKey, Receives, Writes, Replaces, Closes,
        Covers
  <2> QED BY <2>1 DEF Drives, Others
<1>4. Acts(p) /\ Drives(p)
  BY <1>1, <1>2, <1>3 DEF Next, Acts
<1>5. Snap(run[p], Now)
  BY <1>4 DEF NamedInv, Drives
<1> QED BY <1>4, <1>5, EndNamed

(* packages/cli: a command that runs by itself changes what it names and       *)
(* nothing else, also when it fails half-way or is killed; only the            *)
(* configuration file, which is written in place, can be lost to a kill.       *)
THEOREM OnlyNamed == Spec => OnlyWhatIsNamed
<1> DEFINE IInv == Processes /\ Stores /\ NamedInv
           Names == \A p \in Procs :
                      LET torn == IF run'[p].exit = "killed" /\ run[p].at = "fill"
                                  THEN ConfigPlaces ELSE {} IN
                      run[p].exit = None /\ run'[p].exit # None /\ Undisturbed(p) =>
                        \A x \in Places \ (Named(run[p]) \cup torn) : At(x)' = run[p].before[x]
<1>1. Init => IInv
  BY Begins, NamedBegins
<1>2. IInv /\ [Next]_vars => IInv'
  BY ProcessesKept, StoresKept, NamedKept
<1>3. IInv /\ [Next]_vars => Names
  BY StepNamed
<1>4. Spec => [][Names]_vars
  <2> HIDE DEF IInv, Names
  <2> QED BY <1>1, <1>2, <1>3, PTL DEF Spec
<1> QED BY <1>4 DEF OnlyWhatIsNamed

================================================================================
