----------------------------- MODULE MCSession -----------------------------
(* Session with the options that the runtime uses, those of connect()       *)
(* without any, and generators that do not reconnect, loud and quiet.       *)
EXTENDS Session

Made(events, results, reconnect) ==
  [connectionEvents |-> events, commandResults |-> results, reconnect |-> reconnect]
AllOptions == {Made(TRUE, FALSE, TRUE), Made(FALSE, TRUE, TRUE), Made(TRUE, TRUE, FALSE),
               Made(FALSE, FALSE, FALSE)}
RuntimeOptions == {Made(TRUE, FALSE, TRUE)}
=============================================================================
