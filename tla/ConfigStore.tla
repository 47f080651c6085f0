----------------------------- MODULE ConfigStore -----------------------------
(***************************************************************************)
(* Operation "config" (Operations/config.cpp) and Config::Save()              *)
(* (Runtime/Config.cpp) on ConfigList and its lock. The values are left out.   *)
(***************************************************************************)
EXTENDS ApiServer

VARIABLES
    cfgowner,   \* who holds Lock_Config exclusively
    cfgreaders, \* who holds it shared
    emptykey    \* whether ConfigList[""][""] is there

cfgvars == <<cfgowner, cfgreaders, emptykey>>

ConfigTypeOK ==
    /\ cfgowner \in Threads \cup {None}
    /\ cfgreaders \subseteq Threads
    /\ emptykey \in BOOLEAN

ConfigInit ==
    /\ cfgowner = None
    /\ cfgreaders = {}
    /\ emptykey = FALSE

\* get: lock_shared()
GetConfig(t) ==
    /\ pc[t] = "get"
    /\ cfgowner = None
    /\ cfgreaders' = cfgreaders \cup {t}
    /\ Goto(t, "lookup")
    /\ UNCHANGED <<req, rc, cfgowner, emptykey>>

\* ConfigList[key][subkey], with a key and a subkey that were never assigned:
\* the first lookup inserts them. unlock_shared()
LookupConfig(t) ==
    /\ pc[t] = "lookup"
    /\ emptykey' = TRUE
    /\ cfgreaders' = cfgreaders \ {t}
    /\ Return(t, 0)
    /\ UNCHANGED <<req, cfgowner>>

\* set: lock() and the assignment; then Config::Save(), which begins with a
\* lock() of the same mutex. What comes after, the dump of the file and both
\* unlock(), no thread ever reaches: the owner that would have to unlock first
\* is the thread itself. (A thread may also end in that lock() with the whole
\* process, see Crash in module Daemon.)
SetConfig(t) ==
    /\ pc[t] = "set"
    /\ cfgowner = None /\ cfgreaders = {}
    /\ cfgowner' = t
    /\ Goto(t, "resave")
    /\ UNCHANGED <<req, rc, cfgreaders, emptykey>>

ConfigOp(t) == GetConfig(t) \/ LookupConfig(t) \/ SetConfig(t)
=============================================================================
