----------------------------- MODULE ScriptStore -----------------------------
(***************************************************************************)
(* The Super RTAC script store (Operations/supertac.cpp): the JSON array    *)
(* srtac_scripts, the file it is loaded from and saved to, and the two locks  *)
(* around them.                                                            *)
(*                                                                         *)
(*   scripts_fileio_lock  a pthread mutex, held while the file is loaded or  *)
(*                        saved                                            *)
(*   scripts_memio_lock   a shared_timed_mutex, held shared by the ops that  *)
(*                        read the array, exclusive by those that change it   *)
(*                                                                         *)
(* The array is loaded, or created empty, by the first request, outside the   *)
(* memory lock: loading checks the pointer, reads the file and assigns the     *)
(* pointer under the file lock, creating assigns it under no lock.  Saving     *)
(* takes only the file lock, after the memory lock is released, and walks an   *)
(* array that others may be changing; deleting does not save at all.  Each     *)
(* request runs in a thread of its own; the process may die between any two    *)
(* steps, which stands for what is undefined as well: a script freed by another *)
(* thread while it is being written.                                          *)
(***************************************************************************)
EXTENDS Integers, Sequences, SequencesExt

CONSTANTS
    Threads,        \* connection threads
    Names,          \* script names
    Contents,       \* script contents
    Hole,           \* in place of a content: the key "content" is deleted
    None,           \* no thread, no content
    InitialFiles    \* what /etc/ams/srtac_scripts.json may be at first

ASSUME StoreAssumption ==
    /\ Names # {} /\ None \notin Threads /\ "leaked" \notin Threads
    /\ Hole \notin Contents /\ None \notin Contents /\ Hole # None

\* The file at first: a list of whole scripts, each name once.
ASSUME FilesAssumption ==
    \A f \in InitialFiles :
        /\ f \in [state : {"ok", "broken"}, scripts : Seq([name : Names, content : Contents])]
        /\ \A i, j \in DOMAIN f.scripts : f.scripts[i].name = f.scripts[j].name => i = j

VARIABLES
    mem,        \* srtac_scripts: whether it is not NULL, and the array
    file,       \* the file: "ok", "broken" (or absent), and its scripts
    fileio,     \* who holds scripts_fileio_lock
    memio,      \* who holds scripts_memio_lock
    pc,         \* pc[t]: where thread t is in supertac()
    req,        \* req[t]: the request it serves
    at,         \* at[t]: index of the script found, 0 when there is none
    uses,       \* uses[t]: the content exec_script has found
    walk,       \* json_dump_file() on its way through the array
    edited,     \* history: the threads whose script was added or deleted since
    wanted,     \* history: the content last added under a name
    shuffled,   \* history: "file" when a script was removed while the array was
                \* written, "mem" when such a file was loaded
    excuse      \* history: a script may have been lost, see AddedIsOnFile

vars == <<mem, file, fileio, memio, pc, req, at, uses, walk, edited, wanted, shuffled, excuse>>

Leaked == "leaked"

Script == [name : Names, content : Contents \cup {Hole}]

NoArray == [loaded |-> FALSE, scripts |-> <<>>]
Broken == [state |-> "broken", scripts |-> <<>>]

\* A walk: the length of the array when it began, what is written, and the array
\* it goes through when srtac_scripts is another one by now.
NoWalk == [size |-> 0, out |-> <<>>, lost |-> FALSE, from |-> <<>>]

Request ==
    [op : {"get_script", "exec_script", "del_script"}, name : Names, content : {None}]
    \cup [op : {"add_script"}, name : Names, content : Contents]

\* What req[t] is while thread t has none.
NoRequest == CHOOSE r \in Request : TRUE

\* "get_script" stands for get_scripts as well: same lock, same loop. What they
\* answer is left out. (get_script answers nothing: its loop tests the wrong
\* object for being a string.)
ReadOps == {"get_script", "exec_script"}

StoreTypeOK ==
    /\ mem \in [loaded : BOOLEAN, scripts : Seq(Script)]
    /\ file \in [state : {"ok", "broken"}, scripts : Seq(Script)]
    /\ fileio \in Threads \cup {None, Leaked}
    /\ memio \in [excl : Threads \cup {None}, shared : SUBSET Threads, leaked : BOOLEAN]
    /\ pc \in [Threads -> {"idle", "loadlock", "recheck", "loading",
                           "reread", "create", "parse", "op", "reading", "exec", "find", "fill", "save", "dump"}]
    /\ req \in [Threads -> Request]
    /\ at \in [Threads -> Nat]
    /\ uses \in [Threads -> Contents \cup {None}]
    /\ walk \in [size : Nat, out : Seq(Script), lost : BOOLEAN, from : Seq(Script)]
    /\ edited \subseteq Threads
    /\ wanted \in [Names -> Contents \cup {None}]
    /\ shuffled \subseteq {"mem", "file"}
    /\ excuse \in BOOLEAN

Init ==
    /\ mem = NoArray
    /\ file \in InitialFiles
    /\ fileio = None
    /\ memio = [excl |-> None, shared |-> {}, leaked |-> FALSE]
    /\ pc = [t \in Threads |-> "idle"]
    /\ req = [t \in Threads |-> NoRequest]
    /\ at = [t \in Threads |-> 0]
    /\ uses = [t \in Threads |-> None]
    /\ walk = NoWalk
    /\ edited = {}
    /\ wanted = [n \in Names |-> None]
    /\ shuffled = {}
    /\ excuse = FALSE

Goto(t, l) == pc' = [pc EXCEPT ![t] = l]

Return(t) == Goto(t, "idle") /\ req' = [req EXCEPT ![t] = NoRequest]

\* One thread at most is in json_dump_file(), under scripts_fileio_lock.
Walking == \E t \in Threads : pc[t] = "dump"

HasHole(s) == \E i \in DOMAIN s : s[i].content = Hole

\* Bug: positions counted from 0.
BugIndexOf(n) == SelectInSeq(mem.scripts, LAMBDA s : s.name = n) - 1

\* The loops over the array stop at the first script of that name.
IndexOf(n) == SelectInSeq(mem.scripts, LAMBDA s : s.name = n)

(***************************************************************************)
(* load_scripts(), called by every request.                                *)
(***************************************************************************)
Call(t) ==
    /\ pc[t] = "idle"
    /\ Goto(t, IF mem.loaded THEN "parse" ELSE "loadlock")
    /\ UNCHANGED <<mem, file, fileio, memio, req, at, uses, walk, edited, wanted, shuffled, excuse>>

LoadLock(t) ==
    /\ pc[t] = "loadlock"
    /\ fileio = None
    /\ fileio' = t
    /\ Goto(t, "recheck")
    /\ UNCHANGED <<mem, file, memio, req, at, uses, walk, edited, wanted, shuffled, excuse>>

\* Another thread was first: the function returns and the lock stays locked.
RecheckLoaded(t) ==
    /\ pc[t] = "recheck"
    /\ mem.loaded
    /\ fileio' = Leaked
    /\ Goto(t, "parse")
    /\ UNCHANGED <<mem, file, memio, req, at, uses, walk, edited, wanted, shuffled, excuse>>

\* json_load_file() is called; the pointer is assigned when it returns.
RecheckLoad(t) ==
    /\ pc[t] = "recheck"
    /\ ~mem.loaded
    /\ Goto(t, "loading")
    /\ UNCHANGED <<mem, file, fileio, memio, req, at, uses, walk, edited, wanted, shuffled, excuse>>

\* What json_load_file() returns: NULL when there is no JSON in the file.
FromFile == IF file.state = "ok" THEN [loaded |-> TRUE, scripts |-> file.scripts] ELSE NoArray

\* srtac_scripts is assigned, whatever it has become since it was checked: an
\* array that another thread created meanwhile is lost.
LoadEnd(t) ==
    /\ pc[t] = "loading"
    /\ mem' = FromFile
    /\ shuffled' = IF "file" \in shuffled THEN {"mem", "file"} ELSE {}
    /\ excuse' = (excuse \/ mem.loaded)
    /\ fileio' = None
    /\ Goto(t, "reread")
    /\ UNCHANGED <<file, memio, req, at, uses, walk, edited, wanted>>

\* return srtac_scripts != NULL
Reread(t) ==
    /\ pc[t] = "reread"
    /\ Goto(t, IF mem.loaded THEN "parse" ELSE "create")
    /\ UNCHANGED <<mem, file, fileio, memio, req, at, uses, walk, edited, wanted, shuffled, excuse>>

\* srtac_scripts = json_array(), whatever it has become in the meantime. A walk
\* through the array that is replaced goes on through it.
Create(t) ==
    /\ pc[t] = "create"
    /\ mem' = [loaded |-> TRUE, scripts |-> <<>>]
    /\ walk' = IF Walking /\ ~walk.lost
               THEN [walk EXCEPT !.lost = TRUE, !.from = mem.scripts] ELSE walk
    /\ shuffled' = shuffled \ {"mem"}
    /\ excuse' = (excuse \/ mem.loaded)
    /\ Goto(t, "parse")
    /\ UNCHANGED <<file, fileio, memio, req, at, uses, edited, wanted>>

(***************************************************************************)
(* The operations.                                                         *)
(***************************************************************************)
\* Bug: no lock() in the operations that change the array.
BugMayWrite == TRUE

MayWrite == memio.excl = None /\ memio.shared = {} /\ ~memio.leaked

\* Bug: no lock_shared() in the operations that read the array.
BugMayRead == TRUE

MayRead == memio.excl = None

\* The request is looked at once there is an array.
Parse(t) ==
    /\ pc[t] = "parse"
    /\ \E r \in Request : req' = [req EXCEPT ![t] = r]
    /\ Goto(t, "op")
    /\ UNCHANGED <<mem, file, fileio, memio, at, uses, walk, edited, wanted, shuffled, excuse>>

ReadBegin(t) ==
    /\ pc[t] = "op"
    /\ req[t].op \in ReadOps
    /\ MayRead
    /\ memio' = [memio EXCEPT !.shared = @ \cup {t}]
    /\ Goto(t, "reading")
    /\ UNCHANGED <<mem, file, fileio, req, at, uses, walk, edited, wanted, shuffled, excuse>>

\* Whether exec_script comes to a script of that name without a content: it
\* returns -2 from inside the loop.
FindsHole(t) ==
    /\ req[t].op = "exec_script"
    /\ IndexOf(req[t].name) > 0
    /\ mem.scripts[IndexOf(req[t].name)].content = Hole

\* The content that exec_script keeps a pointer to.
FindsContent(t) ==
    /\ req[t].op = "exec_script"
    /\ IndexOf(req[t].name) > 0
    /\ ~FindsHole(t)

\* The loop and unlock_shared(), which FindsHole jumps over.
ReadEnd(t) ==
    /\ pc[t] = "reading"
    /\ memio' = [memio EXCEPT !.shared = @ \ {t}, !.leaked = @ \/ FindsHole(t)]
    /\ IF FindsContent(t)
       THEN /\ uses' = [uses EXCEPT ![t] = mem.scripts[IndexOf(req[t].name)].content]
            /\ Goto(t, "exec")
            /\ UNCHANGED req
       ELSE /\ Return(t)
            /\ UNCHANGED uses
    /\ UNCHANGED <<mem, file, fileio, at, walk, edited, wanted, shuffled, excuse>>

\* The sessions are made, with what the pointer points to by then, once the lock
\* of the task list is free (module RTACSessions).
ExecScript(t) ==
    /\ pc[t] = "exec"
    /\ uses' = [uses EXCEPT ![t] = None]
    /\ edited' = edited \ {t}
    /\ Return(t)
    /\ UNCHANGED <<mem, file, fileio, memio, at, walk, wanted, shuffled, excuse>>

\* Who has found the script that thread t is about to add or delete.
Users(t) == {u \in Threads : pc[u] = "exec" /\ req[u].name = req[t].name}

\* add_script: lock
AddBegin(t) ==
    /\ pc[t] = "op"
    /\ req[t].op = "add_script"
    /\ MayWrite
    /\ memio' = [memio EXCEPT !.excl = t]
    /\ Goto(t, "find")
    /\ UNCHANGED <<mem, file, fileio, req, at, uses, walk, edited, wanted, shuffled, excuse>>

\* The script is looked for and, when it is there, loses its content.
AddFind(t) ==
    /\ pc[t] = "find"
    /\ at' = [at EXCEPT ![t] = IndexOf(req[t].name)]
    /\ mem' = IF at'[t] > 0 THEN [mem EXCEPT !.scripts[at'[t]].content = Hole] ELSE mem
    /\ edited' = edited \cup Users(t)
    /\ Goto(t, "fill")
    /\ UNCHANGED <<file, fileio, memio, req, uses, walk, wanted, shuffled, excuse>>

\* The array once j_script has its content: a new one is appended, which does
\* nothing to NULL, an old one changed where it is, which is nowhere when its
\* array is no longer srtac_scripts.
Filled(t) ==
    LET s == [name |-> req[t].name, content |-> req[t].content] IN
    IF at[t] # 0 THEN [i \in DOMAIN mem.scripts |-> IF i = at[t] THEN s ELSE mem.scripts[i]]
    ELSE IF mem.loaded THEN Append(mem.scripts, s) ELSE <<>>

\* The content is set; unlock.
AddFill(t) ==
    /\ pc[t] = "fill"
    /\ mem' = [mem EXCEPT !.scripts = Filled(t)]
    /\ wanted' = [wanted EXCEPT ![req[t].name] = req[t].content]
    /\ memio' = [memio EXCEPT !.excl = None]
    /\ at' = [at EXCEPT ![t] = 0]
    /\ Goto(t, "save")
    /\ UNCHANGED <<file, fileio, req, uses, walk, edited, shuffled, excuse>>

(***************************************************************************)
(* save_scripts(), called by add_script: json_dump_file() truncates the file,  *)
(* asks for the length of the array once and then for one script after the    *)
(* other, under the file lock alone.                                         *)
(***************************************************************************)
SaveBegin(t) ==
    /\ pc[t] = "save"
    /\ fileio = None
    /\ mem.loaded
    /\ fileio' = t
    /\ file' = Broken
    /\ walk' = [NoWalk EXCEPT !.size = Len(mem.scripts)]
    /\ shuffled' = IF "mem" \in shuffled THEN {"mem", "file"} ELSE {}
    /\ Goto(t, "dump")
    /\ UNCHANGED <<mem, memio, req, at, uses, edited, wanted, excuse>>

\* There is no array: the file is truncated and the request fails.
SaveNothing(t) ==
    /\ pc[t] = "save"
    /\ fileio = None
    /\ ~mem.loaded
    /\ file' = Broken
    /\ shuffled' = {}
    /\ Return(t)
    /\ UNCHANGED <<mem, fileio, memio, at, uses, walk, edited, wanted, excuse>>

\* The array that is written.
Walked == IF walk.lost THEN walk.from ELSE mem.scripts

\* Where the walk has come to.
Position == Len(walk.out) + 1

\* Bug: one script too few is written.
BugMoreToWrite == Position < walk.size

MoreToWrite == Position <= walk.size

\* The content written: as it is now. In an array that was replaced, a script
\* that was being updated then may have got any content since.
Written(s) ==
    IF walk.lost /\ s.content = Hole THEN Contents \cup {Hole} ELSE {s.content}

\* json_array_get(i), as the array is now
SaveScript(t) ==
    /\ pc[t] = "dump"
    /\ MoreToWrite
    /\ Position \in DOMAIN Walked
    /\ \E c \in Written(Walked[Position]) :
          walk' = [walk EXCEPT !.out = Append(@, [name |-> Walked[Position].name, content |-> c])]
    /\ UNCHANGED <<mem, file, fileio, memio, pc, req, at, uses, edited, wanted, shuffled, excuse>>

\* The array has become shorter: json_array_get() returns NULL, json_dump_file()
\* -1, and the file stays as far as it was written.
SaveFails(t) ==
    /\ pc[t] = "dump"
    /\ MoreToWrite
    /\ Position \notin DOMAIN Walked
    /\ walk' = NoWalk
    /\ fileio' = None
    /\ Return(t)
    /\ UNCHANGED <<mem, file, memio, at, uses, edited, wanted, shuffled, excuse>>

SaveEnd(t) ==
    /\ pc[t] = "dump"
    /\ ~MoreToWrite
    /\ file' = [state |-> "ok", scripts |-> walk.out]
    /\ walk' = NoWalk
    /\ fileio' = None
    /\ Return(t)
    /\ UNCHANGED <<mem, memio, at, uses, edited, wanted, shuffled, excuse>>

\* Bug: json_array_remove() takes positions from 0, this one counts from 1.
BugWithout(i) == IF i < Len(mem.scripts) THEN RemoveAt(mem.scripts, i + 1) ELSE mem.scripts

Without(i) == RemoveAt(mem.scripts, i)

\* del_script: lock, remove the first script of that name, unlock; no save
Delete(t) ==
    /\ pc[t] = "op"
    /\ req[t].op = "del_script"
    /\ MayWrite
    /\ mem' = IF IndexOf(req[t].name) > 0
              THEN [mem EXCEPT !.scripts = Without(IndexOf(req[t].name))] ELSE mem
    /\ shuffled' = IF IndexOf(req[t].name) > 0 /\ Walking /\ ~walk.lost
                   THEN shuffled \cup {"file"} ELSE shuffled
    /\ wanted' = [wanted EXCEPT ![req[t].name] = None]
    /\ edited' = edited \cup Users(t)
    /\ Return(t)
    /\ UNCHANGED <<file, fileio, memio, at, uses, walk, excuse>>

\* The process dies and is started again. What was not saved yet was never
\* acknowledged. A file cut short, with a script in the middle of an update or
\* written while scripts were removed is the excuse for what is missing later.
Crash ==
    /\ mem' = NoArray
    /\ fileio' = None
    /\ memio' = [excl |-> None, shared |-> {}, leaked |-> FALSE]
    /\ pc' = [t \in Threads |-> "idle"]
    /\ req' = [t \in Threads |-> NoRequest]
    /\ at' = [t \in Threads |-> 0]
    /\ uses' = [t \in Threads |-> None]
    /\ walk' = NoWalk
    /\ edited' = {}
    /\ wanted' = [n \in Names |->
          IF \E t \in Threads : req[t].name = n /\ pc[t] \in {"save", "dump"}
          THEN None ELSE wanted[n]]
    /\ shuffled' = shuffled \ {"mem"}
    /\ excuse' = (excuse \/ Walking \/ HasHole(file.scripts) \/ "file" \in shuffled)
    /\ UNCHANGED file

Serve(t) ==
    \/ LoadLock(t) \/ RecheckLoaded(t) \/ RecheckLoad(t)
    \/ LoadEnd(t) \/ Reread(t) \/ Create(t)
    \/ Parse(t) \/ ReadBegin(t) \/ ReadEnd(t) \/ ExecScript(t)
    \/ AddBegin(t) \/ AddFind(t) \/ AddFill(t)
    \/ SaveBegin(t) \/ SaveNothing(t) \/ SaveScript(t) \/ SaveFails(t) \/ SaveEnd(t)
    \/ Delete(t)

Next ==
    \/ \E t \in Threads : Call(t) \/ Serve(t)
    \/ Crash

Spec == Init /\ [][Next]_vars

\* Threads are scheduled, and none is passed over for ever by a lock it waits
\* for while the lock is released again and again.
FairSpec == Spec /\ \A t \in Threads : SF_vars(Serve(t))

(***************************************************************************)
(* Properties.                                                             *)
(***************************************************************************)
\* No name is listed twice, in memory or on file, whatever adds, updates and
\* deletes ran at once: add_script looks for the name and appends under one
\* exclusive lock. On file a name may be there twice if a script was deleted
\* while the array was written (one that comes after it, or the deleted one
\* itself, added again, is written a second time or not at all), and in memory
\* if that file was loaded.
UniqueNames ==
    \A where \in {"mem", "file"} \ shuffled :
        LET s == IF where = "mem" THEN mem.scripts ELSE file.scripts IN
        \A i, j \in DOMAIN s : s[i].name = s[j].name => i = j

Adding(t) == pc[t] \in {"fill", "save", "dump"}

\* What a finished add_script stored is on file, with its last content, until
\* the script is added anew or deleted, or it is being written there, although
\* saving is not under the memory lock and walks an array that others add to and
\* change. Until the next save, not if a script was deleted while the array was
\* written; and there are these excuses: a first request replaced an array that
\* another one had created, by the NULL it got for a missing file or by an empty
\* array; or the process died with the file cut short, half updated, or written
\* while a script was deleted.
AddedIsOnFile ==
    ~excuse /\ "file" \notin shuffled =>
        \A n \in Names :
            wanted[n] # None /\ ~(\E t \in Threads : req[t].name = n /\ Adding(t))
            => \/ Walking
               \/ /\ file.state = "ok"
                  /\ [name |-> n, content |-> wanted[n]] \in Range(file.scripts)

\* No reader comes across a script in the middle of an update, its content
\* deleted and not yet set, unless a dead process left one in the file. If
\* exec_script did, it would keep the shared lock for ever.
ReadersSeeWhole ==
    ~excuse => \A t \in Threads : pc[t] = "reading" => ~HasHole(mem.scripts)

\* Between unlock_shared() and the sessions it makes, exec_script uses a content
\* that is no longer under the lock. It is still the one in the store, unless a
\* request for that very script came in between: what others add, update and
\* delete, whatever positions shift in the array, does not touch it. (A request
\* that did frees the string that is used.)
ExecUsesStored ==
    ~excuse => \A t \in Threads : pc[t] = "exec" /\ t \notin edited =>
        [name |-> req[t].name, content |-> uses[t]] \in Range(mem.scripts)

\* Every request is answered (API_UnixSocket.cpp: one thread per connection,
\* "without letting the client wait for a long time").
RequestsEnd == \A t \in Threads : (pc[t] # "idle") ~> (pc[t] = "idle")
=============================================================================
