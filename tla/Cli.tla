---------------------------------- MODULE Cli ----------------------------------
(***************************************************************************)
(* The command-line tool (packages/cli): what the commands that change     *)
(* something do to the service and to the files of the machine, step by    *)
(* step.  A process runs one command; several run at once, in one directory *)
(* and against one workspace, and each can be killed between any two of    *)
(* its steps.  A request reaches the service or not, and its answer        *)
(* reaches the command or not.                                             *)
(*                                                                         *)
(* A flag, or a variable of the environment, is chosen at the step that    *)
(* first uses it.  A prompt is a place of its own, where the command waits *)
(* for a person, without a limit of time.  Output, the commands that only  *)
(* read, and the installation of packages are left out.                    *)
(***************************************************************************)
EXTENDS Naturals, Sequences, FiniteSets

CONSTANTS
    Procs,     \* processes, numbered in the order they are started
    Spare,     \* ids for the apps that commands create
    Deadline,  \* how long --wait lasts, in polling intervals
    MaxDelay   \* the longest pause between two polls, in the same unit

ASSUME ProcsAreNumbered == IsFiniteSet(Procs) /\ Procs = 1 .. Cardinality(Procs)
ASSUME SpareAreIds ==
    IsFiniteSet(Spare) /\ Spare \cap {"none", "i1", "i2", "config", "added", "keys", "lines", "ignored"} = {}
ASSUME BoundsArePositive == Deadline \in Nat \ {0} /\ MaxDelay \in Nat \ {0}

None == "none"
New == "new"                         \* a value the command line gives
Files == {".env", "prod.env"}
Outside == {"prod.env"}              \* not within the repository
Ids == {"i1", "i2"} \cup Spare
Fields == {"name", "type", "url", "spaceId", "drafts", "key"}
Opts == {"spaceId", "drafts"}        \* the fields kept in `opts`
Refs == {"i2", "one"}
Workspaces == {[id |-> "w1", names |-> {"west"}], [id |-> "w2", names |-> {"east", "w1"}]}
Collections == {[id |-> "c1", names |-> {"posts"}], [id |-> "c2", names |-> {"news", "posts"}]}
Scanned == {"s1", "s2"}              \* what a scan of the integration i2 offers
Settled == {"completed", "failed", "blocked"}

VARIABLES
    integrations,  \* the service's integrations: field -> value
    added,         \* the scanned collections that Contfu has
    op,            \* the source operation each process asked for
    config,        \* ~/.config/contfu/config.json
    env,           \* the env files: CONTFU_KEY assignments, and whether the other lines are there
    ignored,       \* the env files that .gitignore covers
    run            \* what each process is doing

vars == <<integrations, added, op, config, env, ignored, run>>
service == <<integrations, added, op>>
files == <<config, env, ignored>>

Gone == [x \in Fields |-> None]
Exists(i) == integrations[i].type # None
Apps == {i \in Ids : integrations[i].type = "app"}

\* The key the application reads: the first assignment that has a value.
FirstKey(f) ==
    LET keys == env[f].keys
        given == {n \in DOMAIN keys : keys[n] # <<>>}
    IN  IF given = {} THEN <<>> ELSE keys[CHOOSE n \in given : \A m \in given : n <= m]

(***************************************************************************)
(* Every place a command can write, and what is there.                     *)
(***************************************************************************)
Places == (Ids \X Fields) \cup ({"config"} \X {"apiKey", "workspaceId"})
            \cup ({"added"} \X Scanned) \cup ({"keys", "lines", "ignored"} \X Files)

At(x) ==
    CASE x[1] \in Ids      -> integrations[x[1]][x[2]]
      [] x[1] = "config"   -> config[x[2]]
      [] x[1] = "added"    -> x[2] \in added
      [] x[1] = "keys"     -> env[x[2]].keys
      [] x[1] = "lines"    -> env[x[2]].lines
      [] x[1] = "ignored"  -> x[2] \in ignored

\* A process before its command starts.
Fresh == [cmd |-> None, at |-> "idle", exit |-> None, after |-> {}, before |-> <<>>,
          id |-> None, ref |-> None, flags |-> {}, file |-> None, made |-> <<>>, dry |-> FALSE,
          wait |-> FALSE, read |-> <<>>, status |-> None, left |-> 0, delay |-> 0, retries |-> 0]

\* The names of an app, which has a key, and of a content source; its type; what
\* .env holds; and whether somebody is logged in.
Beginnings ==
    {[app |-> "one", source |-> "one", type |-> "contentful", keys |-> << <<>>, <<"i1", 1>> >>,
      apiKey |-> "token"],
     [app |-> "i2",  source |-> "one", type |-> "strapi", keys |-> <<>>, apiKey |-> "token"],
     [app |-> "one", source |-> "two", type |-> "strapi", keys |-> << <<"i1", 1>> >>,
      apiKey |-> None]}

Init ==
    \E b \in Beginnings :
    /\ integrations =
         [i \in Ids |->
           CASE i = "i1" -> [Gone EXCEPT !.name = b.app, !.type = "app", !.key = 1]
             [] i = "i2" -> [Gone EXCEPT !.name = b.source, !.type = b.type, !.url = "old",
                                         !.spaceId = "old", !.drafts = "old"]
             [] OTHER    -> Gone]
    /\ added = {"s1"}
    /\ op = [p \in Procs |-> None]
    /\ config = [apiKey |-> b.apiKey, workspaceId |-> IF b.apiKey = None THEN None ELSE "w1"]
    /\ env = [f \in Files |-> [keys |-> IF f = ".env" THEN b.keys ELSE <<>>, lines |-> TRUE]]
    /\ ignored = {}
    /\ run = [p \in Procs |-> Fresh]

--------------------------------------------------------------------------------
(***************************************************************************)
(* Processes.                                                              *)
(***************************************************************************)
Begun(p) == run[p].cmd # None
Running(p) == run[p].at \notin {"idle", "ended"}

Start(p, cmd, at) ==
    /\ ~Begun(p)
    /\ \A q \in Procs : q < p => Begun(q)
    /\ run' = [run EXCEPT ![p] =
                 [Fresh EXCEPT !.cmd = cmd, !.at = at,
                               !.after = {q \in Procs : run[q].at = "ended"},
                               !.before = IF \E q \in Procs : Running(q) THEN <<>>
                                          ELSE [x \in Places |-> At(x)]]]
    /\ UNCHANGED <<service, files>>

\* The record r with other values in the fields of what.
With(r, what) == [x \in DOMAIN r |-> IF x \in DOMAIN what THEN what[x] ELSE r[x]]

Continue(p, what) == run' = [run EXCEPT ![p] = With(run[p], what)]

\* Ended well, a process keeps what it was told and what it made; otherwise only
\* what it made and the file that was for.
Completed(r) == [r EXCEPT !.at = "ended", !.exit = "ok", !.before = <<>>, !.read = <<>>,
                          !.left = 0, !.delay = 0, !.retries = 0, !.ref = None]
Stopped(r, code) == [Fresh EXCEPT !.cmd = r.cmd, !.at = "ended", !.exit = code,
                                  !.after = r.after, !.made = r.made, !.file = r.file]

End(p, code) ==
    run' = [run EXCEPT ![p] = IF code = "ok" THEN Completed(run[p]) ELSE Stopped(run[p], code)]

Kill(p) ==
    /\ Running(p)
    /\ End(p, "killed")
    /\ UNCHANGED <<service, files>>

\* A setup whose key for the service is in CONTFU_API_KEY.
Environment == "CONTFU_API_KEY"

Requests == {"resolve", "list", "read", "patch", "delete", "rotate", "create", "scan", "add",
             "request", "exchange"}

\* A request is refused or never reaches the service; the env file is a symbolic
\* link or cannot be written.
Fail(p) ==
    /\ run[p].at \in Requests \cup {"load", "rename"}
    /\ End(p, "failed")
    /\ UNCHANGED <<service, files>>

\* The commands that ask the service stop at once when they find no key; one that
\* goes on with none in the configuration has it from CONTFU_API_KEY.
Unauthorized(p) ==
    /\ \/ run[p].at = "resolve"
       \/ run[p].at = "list" /\ Environment \notin run[p].flags
       \/ run[p].at = "create" /\ run[p].cmd = "create"
    /\ config.apiKey = None
    /\ End(p, "failed")
    /\ UNCHANGED <<service, files>>

\* What was asked for is done; the answer can still be lost on its way back.
Answered(p, code) == End(p, code) \/ End(p, "failed")

--------------------------------------------------------------------------------
(***************************************************************************)
(* A reference is an id, or else a name that only one row has.             *)
(***************************************************************************)
ResolveUnique(rows, ref) ==
    LET byId == {r \in rows : r.id = ref}
        byName == {r \in rows : ref \in r.names}
    IN  {r.id : r \in IF byId # {} THEN byId
                      ELSE IF Cardinality(byName) = 1 THEN byName ELSE {}}

IntegrationRows == {[id |-> i, names |-> {integrations[i].name}] : i \in {j \in Ids : Exists(j)}}

RowsFor(cmd) ==
    CASE cmd = "sync"   -> Collections
      [] cmd = "switch" -> Workspaces
      [] OTHER          -> IntegrationRows

RefsFor(cmd) ==
    CASE cmd = "sync"   -> {"news", "posts"}
      [] cmd = "switch" -> {"w1", "east"}
      [] cmd = "add"    -> {"i2"}
      [] OTHER          -> Refs

Then(cmd) ==
    CASE cmd = "update"     -> "flags"
      [] cmd = "regenerate" -> "rotate"
      [] cmd = "switch"     -> "config"
      [] cmd = "sync"       -> "request"
      [] cmd = "add"        -> "choose"
      [] cmd = "delete"     -> "delete"

\* A dry run stops here, except that of an update and of an addition: these look
\* further before they print what they would send.
Resolve(p) ==
    /\ run[p].at = "resolve"
    /\ LET cmd == run[p].cmd IN
       \E ref \in RefsFor(cmd), dry \in BOOLEAN,
          file \in IF cmd = "regenerate" THEN Files ELSE {None} :
         LET found == ResolveUnique(RowsFor(cmd), ref) IN
         IF found = {} THEN End(p, "failed")
         ELSE IF dry /\ cmd \notin {"update", "add"} THEN End(p, "ok")
         ELSE \E i \in found :
                Continue(p, [at |-> Then(cmd), ref |-> ref, id |-> i, dry |-> dry, file |-> file])
    /\ UNCHANGED <<service, files>>

--------------------------------------------------------------------------------
(***************************************************************************)
(* integrations update and delete.                                         *)
(***************************************************************************)
StartUpdate(p) == Start(p, "update", "resolve")
StartDelete(p) == Start(p, "delete", "resolve")

\* What is there is read first unless the flags leave the options alone.  A flag
\* that the command does not take ends it.
ReadFlags(p) ==
    /\ run[p].at = "flags"
    /\ \/ End(p, "failed")
       \/ \E flags \in SUBSET {"name", "url", "drafts"} :
            Continue(p, [at |-> IF flags \subseteq {"name"} THEN "patch" ELSE "read",
                         flags |-> flags])
    /\ UNCHANGED <<service, files>>

\* The flags that an integration of that type does not have.
Misfits(type, flags) ==
    \/ "drafts" \in flags /\ type # "strapi"
    \/ "url" \in flags /\ type = "app"

\* --url names the space of a Contentful integration.
Sets(type, flags) == {IF x = "url" /\ type = "contentful" THEN "spaceId" ELSE x : x \in flags}

\* Mutant: only the options of the flags are sent.
OnlyFlagged(existing, flags) == [x \in Opts |-> IF x \in flags THEN New ELSE None]

\* The service takes the options as a whole: those that are there are sent along.
Merged(existing, flags) == [x \in Opts |-> IF x \in flags THEN New ELSE existing[x]]

ReadExisting(p) ==
    /\ run[p].at = "read"
    /\ LET existing == integrations[run[p].id]
           flags == Sets(existing.type, run[p].flags)
       IN  IF ~Exists(run[p].id) \/ Misfits(existing.type, run[p].flags) THEN End(p, "failed")
           ELSE Continue(p, [at |-> "patch", flags |-> flags, read |-> Merged(existing, flags)])
    /\ UNCHANGED <<service, files>>

\* The service's part: a field that is sent replaces the one there.
Patched(existing, flags, opts) ==
    [x \in Fields |-> IF x \in Opts /\ opts # <<>> THEN opts[x]
                      ELSE IF x \in flags THEN New ELSE existing[x]]

Patch(p) ==
    /\ run[p].at = "patch"
    /\ IF run[p].dry THEN End(p, "ok") /\ UNCHANGED integrations
       ELSE IF ~Exists(run[p].id) THEN End(p, "failed") /\ UNCHANGED integrations
       ELSE /\ integrations' = [integrations EXCEPT ![run[p].id] =
                                  Patched(integrations[run[p].id], run[p].flags, run[p].read)]
            /\ Answered(p, "ok")
    /\ UNCHANGED <<added, op, files>>

Delete(p) ==
    /\ run[p].at = "delete"
    /\ IF ~Exists(run[p].id) THEN End(p, "failed") /\ UNCHANGED integrations
       ELSE integrations' = [integrations EXCEPT ![run[p].id] = Gone] /\ Answered(p, "ok")
    /\ UNCHANGED <<added, op, files>>

--------------------------------------------------------------------------------
(***************************************************************************)
(* integrations add: collections by reference, all of them, or those       *)
(* picked from a scan, where what is there already cannot be picked.       *)
(***************************************************************************)
StartAdd(p) == Start(p, "add", "resolve")

Choose(p) ==
    /\ run[p].at = "choose"
    /\ \/ Continue(p, [at |-> "scan"])
       \/ \E refs \in SUBSET Scanned \ {{}} :      \* --refs, or --all for all of them
            IF run[p].dry THEN End(p, "ok") ELSE Continue(p, [at |-> "add", flags |-> refs])
    /\ UNCHANGED <<service, files>>

\* Picking needs a terminal.  What is not there yet is ticked to begin with.
Scan(p) ==
    /\ run[p].at = "scan"
    /\ \/ Continue(p, [at |-> "pick", flags |-> Scanned \ added])
       \/ End(p, "failed")
    /\ UNCHANGED <<service, files>>

PickRefs(p) ==
    /\ run[p].at = "pick"
    /\ \/ \E refs \in SUBSET run[p].flags :
            IF run[p].dry THEN End(p, "ok") ELSE Continue(p, [at |-> "add", flags |-> refs])
       \/ End(p, "failed")
    /\ UNCHANGED <<service, files>>

Add(p) ==
    /\ run[p].at = "add"
    /\ IF ~Exists(run[p].id) THEN End(p, "failed") /\ UNCHANGED added
       ELSE added' = added \cup run[p].flags /\ Answered(p, "ok")
    /\ UNCHANGED <<integrations, op, files>>

--------------------------------------------------------------------------------
(***************************************************************************)
(* Application keys: integrations regenerate-key, integrations create      *)
(* --generate-key, and setup.  A key is the n-th of its integration.       *)
(***************************************************************************)
StartRegenerate(p) == Start(p, "regenerate", "resolve")
StartCreate(p) == Start(p, "create", "create")
StartSetup(p) == \/ Start(p, "setup", "package")
                 \/ Start(p, "setup", "auth")

\* Setup asks which package to install, unless it is installed or a flag names it.
PickPackage(p) ==
    /\ run[p].at = "package"
    /\ Continue(p, [at |-> "auth"]) \/ End(p, "failed")
    /\ UNCHANGED <<service, files>>

\* Without a key for the service, setup logs in, or fails when it may not ask.
CheckAuth(p) ==
    /\ run[p].at = "auth"
    /\ \/ End(p, "ok")                                           \* --dry-run
       \/ Continue(p, [at |-> "look", flags |-> {Environment}])
       \/ config.apiKey # None /\ Continue(p, [at |-> "look"])
       \/ config.apiKey = None /\ End(p, "failed")               \* --non-interactive
       \/ config.apiKey = None /\ \E at \in {"browser", "paste"} : Continue(p, [at |-> at])
    /\ UNCHANGED <<service, files>>

\* A key that is there already, in .env or in the environment, ends setup.
LookForKey(p) ==
    /\ run[p].at = "look"
    /\ \E inEnvironment \in BOOLEAN :
         IF inEnvironment \/ FirstKey(".env") # <<>> THEN End(p, "ok")
         ELSE Continue(p, [at |-> "list"])
    /\ UNCHANGED <<service, files>>

\* The flags name a new app, or are not enough to go on without asking; or the
\* apps that are there are offered, and a name is asked for.
ListApps(p) ==
    /\ run[p].at = "list"
    /\ \/ \E file \in Files : Continue(p, [at |-> "create", file |-> file, flags |-> {}])
       \/ End(p, "failed")
       \/ Continue(p, [at |-> "app", flags |-> Apps])
    /\ UNCHANGED <<service, files>>

\* A new app, a new key for one that was offered, neither; or no valid answer.
PickApp(p) ==
    /\ run[p].at = "app"
    /\ \/ \E file \in Files : Continue(p, [at |-> "create", file |-> file, flags |-> {}])
       \/ \E i \in run[p].flags, file \in Files :
            Continue(p, [at |-> "rotate", id |-> i, file |-> file, flags |-> {}])
       \/ run[p].flags # {} /\ End(p, "ok")
       \/ End(p, "failed")
    /\ UNCHANGED <<service, files>>

\* The service's key goes to the env file, unless the answer is lost.
Receive(p, key, file) ==
    LET answered == With(run[p], [made |-> key, file |-> file]) IN
    \/ run' = [run EXCEPT ![p] = With(answered, [at |-> "load"])]
    \/ run' = [run EXCEPT ![p] = Stopped(answered, "failed")]

CreateApp(p) ==
    /\ run[p].at = "create"
    /\ LET i == CHOOSE j \in Spare : ~Exists(j) IN
       \/ /\ \E j \in Spare : ~Exists(j)      \* bound: the ids of the model
          /\ integrations' = [integrations EXCEPT ![i] = [Gone EXCEPT !.name = "app",
                                                            !.type = "app", !.key = 1]]
          /\ \E file \in IF run[p].cmd = "create" THEN Files ELSE {run[p].file} :
               Receive(p, <<i, 1>>, file)
       \/ run[p].cmd = "create" /\ End(p, "ok") /\ UNCHANGED integrations    \* --dry-run
    /\ UNCHANGED <<added, op, files>>

Rotate(p) ==
    /\ run[p].at = "rotate"
    /\ LET i == run[p].id
           n == integrations[i].key
       IN  IF i \notin Apps THEN End(p, "failed") /\ UNCHANGED integrations
           ELSE /\ integrations' = [integrations EXCEPT ![i].key = n + 1]
                /\ Receive(p, <<i, n + 1>>, run[p].file)
    /\ UNCHANGED <<added, op, files>>

\* Mutant: a line is added after those that are there.
Appended(keys, key) == Append(keys, key)

\* The first assignment gets the new key and the later ones go; without any, one is added.
Rewritten(keys, key) == <<key>>

LoadEnv(p) ==
    /\ run[p].at = "load"
    /\ Continue(p, [at |-> "rename", read |-> env[run[p].file]])
    /\ UNCHANGED <<service, files>>

\* A temporary file, written and closed, takes the place of the env file.
ReplaceEnv(p) ==
    /\ run[p].at = "rename"
    /\ LET loaded == run[p].read IN
       env' = [env EXCEPT ![run[p].file] =
                 [loaded EXCEPT !.keys = Rewritten(loaded.keys, run[p].made)]]
    /\ Continue(p, [at |-> "ignore", read |-> <<>>])
    /\ UNCHANGED <<service, config, ignored>>

EnsureGitignore(p) ==
    /\ run[p].at = "ignore"
    /\ ignored' = ignored \cup ({run[p].file} \ Outside)
    /\ End(p, "ok")
    /\ UNCHANGED <<service, config, env>>

--------------------------------------------------------------------------------
(***************************************************************************)
(* The configuration: login, logout, workspaces switch.                    *)
(***************************************************************************)
StartLogin(p) == \/ Start(p, "login", "browser")
                 \/ Start(p, "login", "paste")
StartLogout(p) == Start(p, "logout", "config")
StartSwitch(p) == Start(p, "switch", "resolve")

\* The browser comes back with a code, or something else calls the local server;
\* a code is pasted, or something that is none.
Authorize(p) ==
    /\ run[p].at \in {"browser", "paste"}
    /\ \/ Continue(p, [at |-> "exchange", wait |-> run[p].at = "browser"])
       \/ End(p, "failed")
    /\ UNCHANGED <<service, files>>

\* Five minutes after a browser login began, whatever it is doing.
LoginTimesOut(p) ==
    /\ run[p].at = "browser" \/ (run[p].at = "exchange" /\ run[p].wait)
    /\ End(p, "failed")
    /\ UNCHANGED <<service, files>>

\* The configuration of a login holds nothing of the one before it.
LoginConfig == [apiKey |-> "token", workspaceId |-> None]

\* The token of a browser login is not used before the program that opened the
\* browser has ended.
ExchangeCode(p) ==
    /\ run[p].at = "exchange"
    /\ \/ Continue(p, [at |-> "truncate", read |-> LoginConfig])
       \/ run[p].wait /\ Continue(p, [at |-> "opener"])
    /\ UNCHANGED <<service, files>>

OpenerEnds(p) ==
    /\ run[p].at = "opener"
    /\ Continue(p, [at |-> "truncate", read |-> LoginConfig])
    /\ UNCHANGED <<service, files>>

\* A configuration that cannot be read counts as an empty one.
ReadConfig(p) ==
    /\ run[p].at = "config"
    /\ \/ run[p].cmd = "logout" /\ End(p, "ok")          \* --dry-run
       \/ Continue(p, [at |-> "truncate",
                       read |-> IF run[p].cmd = "logout" THEN [config EXCEPT !.apiKey = None]
                                ELSE [config EXCEPT !.workspaceId = run[p].id]])
       \/ run[p].cmd = "switch" /\ End(p, "failed")      \* the workspace is not joined
    /\ UNCHANGED <<service, files>>

\* The file is written in place: emptied, then filled.
TruncateConfig(p) ==
    /\ run[p].at = "truncate"
    /\ config' = [apiKey |-> None, workspaceId |-> None]
    /\ Continue(p, [at |-> "fill"])
    /\ UNCHANGED <<service, env, ignored>>

FillConfig(p) ==
    /\ run[p].at = "fill"
    /\ config' = run[p].read
    /\ IF run[p].cmd = "setup" THEN Continue(p, [at |-> "look", read |-> <<>>]) ELSE End(p, "ok")
    /\ UNCHANGED <<service, env, ignored>>

--------------------------------------------------------------------------------
(***************************************************************************)
(* collections sync-now, full-refresh and full-resync, with --wait or not. *)
(***************************************************************************)
StartSync(p) == Start(p, "sync", "resolve")

\* An operation that failed at once is reported even without --wait, except that
\* of a full resync.
AcceptedCode(status, resync) ==
    IF status \in {"failed", "blocked"} /\ ~resync THEN "failed" ELSE "ok"

Request(p) ==
    /\ run[p].at = "request"
    /\ \E status \in Settled \cup {"running"} :
         /\ op' = [op EXCEPT ![p] = status]
         /\ \/ \E resync \in BOOLEAN : Answered(p, AcceptedCode(status, resync))
            \/ Continue(p, [at |-> "wait", wait |-> TRUE, status |-> status,
                            left |-> Deadline, delay |-> 1])
    /\ UNCHANGED <<integrations, added, files>>

\* The service works on the operation, or never gets to it.
Work(p) ==
    /\ op[p] = "running"
    /\ \E status \in Settled : op' = [op EXCEPT ![p] = status]
    /\ UNCHANGED <<integrations, added, files, run>>

Least(a, b) == IF a < b THEN a ELSE b

\* The pause after an error: what the service asks for, at least one interval, or
\* twice as long as the last time.
PollingDelay(retries, asked) ==
    IF asked > 0 THEN asked ELSE Least(MaxDelay, 2 ^ retries)

\* Mutant: the end of the wait is taken for success.
AnyEnd(status) == "ok"

\* The wait is over, whatever the operation came to.
SettledCode(status) == IF status = "completed" THEN "ok" ELSE "failed"

Settle(p) ==
    /\ run[p].at = "wait"
    /\ run[p].status \in Settled
    /\ End(p, SettledCode(run[p].status))
    /\ UNCHANGED <<service, files>>

\* Mutant: a wait has no end.
NeverExpires(left) == FALSE

Expired(left) == left = 0

Expire(p) ==
    /\ run[p].at = "wait"
    /\ run[p].status \notin Settled
    /\ Expired(run[p].left)
    /\ End(p, "failed")
    /\ UNCHANGED <<service, files>>

Sleep(p) ==
    /\ run[p].at = "wait"
    /\ run[p].status \notin Settled
    /\ ~Expired(run[p].left)
    /\ Continue(p, [at |-> "poll", left |-> run[p].left - Least(run[p].delay, run[p].left)])
    /\ UNCHANGED <<service, files>>

Poll(p) ==
    /\ run[p].at = "poll"
    /\ \/ Continue(p, [at |-> "wait", status |-> op[p], delay |-> 1, retries |-> 0])
       \/ \E asked \in {0, Deadline + 1} :                        \* 429 or 5xx
            Continue(p, [at |-> "wait", delay |-> PollingDelay(run[p].retries, asked),
                         retries |-> Least(run[p].retries + 1, MaxDelay)])
       \/ End(p, "failed")                                        \* any other error
    /\ UNCHANGED <<service, files>>

--------------------------------------------------------------------------------
Begin(p) == \/ StartUpdate(p) \/ StartDelete(p) \/ StartAdd(p) \/ StartRegenerate(p)
            \/ StartCreate(p) \/ StartSetup(p) \/ StartLogin(p) \/ StartLogout(p)
            \/ StartSwitch(p) \/ StartSync(p)

\* What a process does by itself, or gets an answer to.
Step(p) == \/ Fail(p) \/ Unauthorized(p) \/ Resolve(p)
           \/ ReadFlags(p) \/ ReadExisting(p) \/ Patch(p) \/ Delete(p)
           \/ Choose(p) \/ Scan(p) \/ Add(p)
           \/ CheckAuth(p) \/ LookForKey(p) \/ ListApps(p) \/ CreateApp(p) \/ Rotate(p)
           \/ LoadEnv(p) \/ ReplaceEnv(p) \/ EnsureGitignore(p)
           \/ LoginTimesOut(p) \/ ExchangeCode(p)
           \/ ReadConfig(p) \/ TruncateConfig(p) \/ FillConfig(p)
           \/ Request(p) \/ Settle(p) \/ Expire(p) \/ Sleep(p) \/ Poll(p)

\* What waits for a person, or for the program that opens the browser.
Awaits(p) == \/ Authorize(p) \/ OpenerEnds(p)
           \/ PickPackage(p) \/ PickApp(p) \/ PickRefs(p)

Next == \E p \in Procs : Begin(p) \/ Step(p) \/ Awaits(p) \/ Kill(p) \/ Work(p)

\* A process goes on, and the service answers it or the request fails; nobody has to
\* answer a prompt, and the service need not finish an operation.
Spec == Init /\ [][Next]_vars /\ \A p \in Procs : WF_vars(Step(p))

--------------------------------------------------------------------------------
(***************************************************************************)
(* Properties.                                                             *)
(***************************************************************************)
\* No other process was running beside p, or has started since.
Undisturbed(p) == \A q \in Procs \ {p} : Begun(q) => q \in run[p].after

\* What the integration reference of the process r stood for when r was started.
Meant(r) ==
    LET there(i) == r.before[<<i, "type">>] # None
        same(i) == there(i) /\ r.before[<<i, "name">>] = r.ref
    IN  IF r.ref \in Ids /\ there(r.ref) THEN {r.ref}
        ELSE {i \in Ids : same(i) /\ \A j \in Ids \ {i} : ~same(j)}

KeyPlaces(r) == {"keys", "ignored"} \X {r.file}
ConfigPlaces == {"config"} \X {"apiKey", "workspaceId"}
NewApps(r) == {i \in Ids : r.before[<<i, "type">>] = None} \X Fields

\* The places that the command of r is about.
Named(r) ==
    CASE r.cmd = "update"     -> IF r.dry THEN {} ELSE Meant(r) \X r.flags
      [] r.cmd = "delete"     -> Meant(r) \X Fields
      [] r.cmd = "add"        -> IF r.dry THEN {} ELSE {"added"} \X r.flags
      [] r.cmd = "regenerate" -> (Meant(r) \X {"key"}) \cup KeyPlaces(r)
      [] r.cmd = "create"     -> NewApps(r) \cup KeyPlaces(r)
      [] r.cmd = "setup"      -> NewApps(r) \cup (Ids \X {"key"}) \cup KeyPlaces(r)
                                   \cup ConfigPlaces
      [] r.cmd = "login"      -> ConfigPlaces
      [] r.cmd = "logout"     -> {<<"config", "apiKey">>}
      [] r.cmd = "switch"     -> {<<"config", "workspaceId">>}
      [] r.cmd = "sync"       -> {}

\* A command that runs by itself changes what it names and nothing else: not another
\* integration of a similar name, not an option that no flag sets, not another line
\* of the env file, nothing at all when it is a dry run or one of its checks fails;
\* and so it is when it fails half-way or is killed.  Only the configuration file,
\* which is written in place, can be lost to a kill.
OnlyWhatIsNamed ==
    [][\A p \in Procs :
         LET torn == IF run'[p].exit = "killed" /\ run[p].at = "fill" THEN ConfigPlaces ELSE {} IN
         run[p].exit = None /\ run'[p].exit # None /\ Undisturbed(p) =>
           \A x \in Places \ (Named(run[p]) \cup torn) : At(x)' = run[p].before[x]]_vars

Overlapped(p, q) == p \notin run[q].after /\ q \notin run[p].after

\* The key an application finds in its env file is the one its integration has,
\* unless the command that made the newer key has not ended well (it is still
\* running, failed, or was killed), wrote to another file, or ran while another
\* command wrote a key.
KeysStayUsable ==
    \A f \in Files :
      LET k == FirstKey(f) IN
      k # <<>> /\ Exists(k[1]) /\ integrations[k[1]].key # k[2] =>
        \E p \in Procs :
          /\ Begun(p) /\ run[p].made = <<k[1], integrations[k[1]].key>>
          /\ \/ run[p].exit # "ok" \/ run[p].file # f
             \/ \E q \in Procs \ {p} : Begun(q) /\ run[q].made # <<>> /\ Overlapped(p, q)

\* A command that reports success has done what it was asked for, and it is still
\* so unless another command ran at the same time or later; a command that waits
\* reports success only for an operation that completed.
ExitTellsOutcome ==
    \A p \in Procs :
      run[p].exit = "ok" =>
        /\ run[p].wait /\ run[p].cmd = "sync" => op[p] = "completed"
        /\ Undisturbed(p) =>
             /\ run[p].made # <<>> =>
                  /\ FirstKey(run[p].file) = run[p].made
                  /\ run[p].file \in ignored \cup Outside
             /\ run[p].cmd = "update" /\ ~run[p].dry =>
                  \A x \in run[p].flags : integrations[run[p].id][x] = New
             /\ run[p].cmd = "delete" /\ run[p].id # None => ~Exists(run[p].id)
             /\ run[p].cmd = "add" /\ ~run[p].dry => run[p].flags \subseteq added
             /\ run[p].cmd = "switch" /\ run[p].id # None => config.workspaceId = run[p].id
             /\ run[p].cmd = "login" => config.apiKey # None

\* The places where a command waits for somebody: a pasted code, the choice of a
\* package, an app or collections, and the program that opened the browser.
Asking == {"paste", "package", "app", "pick", "opener"}

\* Every command ends, even one that waits for an operation the service never
\* finishes or for a browser nobody comes back from; only a prompt, or a browser
\* that login itself has to keep open, can keep it waiting.
CommandsEnd ==
    \A p \in Procs : Begun(p) ~> (run[p].at \in {"ended"} \cup Asking)

================================================================================
