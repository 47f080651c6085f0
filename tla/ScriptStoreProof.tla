-------------------------- MODULE ScriptStoreProof --------------------------
(***************************************************************************)
(* Proofs about ScriptStore, checked by TLAPS: what holds for every number of  *)
(* requests, names and contents, and every crash.                            *)
(***************************************************************************)
EXTENDS ScriptStore, SequenceTheorems, WellFoundedInduction, TLAPS

Unique(s) == \A i, j \in DOMAIN s : s[i].name = s[j].name => i = j

Has(s, n, c) == \E i \in DOMAIN s : s[i].name = n /\ s[i].content = c

\* Who is where.
At(locs, n) == \E t \in Threads : pc[t] \in locs /\ req[t].name = n

Past == {"parse", "op", "reading", "exec", "find", "fill", "save", "dump"}

\* Past load_scripts() there is an array, unless another request has lost it.
LoadedInv ==
    /\ ~mem.loaded => mem.scripts = <<>>
    /\ ~excuse => \A t \in Threads : pc[t] \in Past => mem.loaded
    /\ \A t \in Threads : pc[t] = "dump" => mem.loaded

\* Which request is where.
OpInv == \A t \in Threads :
    /\ pc[t] \in {"find", "fill", "save", "dump"} => req[t].op = "add_script"
    /\ pc[t] \in {"reading", "exec"} => req[t].op \in ReadOps

\* The locks are held where the code says.
LocksInv ==
    /\ \A t \in Threads : fileio = t <=> pc[t] \in {"recheck", "loading", "dump"}
    /\ \A t \in Threads : memio.excl = t <=> pc[t] \in {"find", "fill"}
    /\ \A t \in Threads : t \in memio.shared <=> pc[t] = "reading"
    /\ memio.excl # None => memio.shared = {}

\* Whoever is past the load of a file that is still good has left an array
\* behind, so a load never puts scripts where requests are at work already.
ColdInv ==
    /\ ~mem.loaded \/ (\E u \in Threads : pc[u] = "loading") =>
          \A t \in Threads : pc[t] \in Past \cup {"reread", "create"} => file.state = "broken"
    /\ mem.loaded /\ (\E u \in Threads : pc[u] = "loading") => file.state = "broken"

\* Names are unique where no removal shuffled them.
UniqueInv ==
    /\ "mem" \notin shuffled => Unique(mem.scripts)
    /\ "file" \notin shuffled => Unique(file.scripts)

\* A file written while a script was removed is in memory only with an excuse.
ShuffledInv ==
    /\ "mem" \in shuffled => excuse
    /\ "file" \in shuffled /\ ~mem.loaded => excuse

\* Between the two halves of an add, at[t] is where the script is, or it is
\* not there. (With an excuse the array may have been replaced.)
FillInv == \A t \in Threads : pc[t] = "fill" =>
    /\ at[t] = 0 => \A i \in DOMAIN mem.scripts : mem.scripts[i].name # req[t].name
    /\ at[t] \in DOMAIN mem.scripts => mem.scripts[at[t]].name = req[t].name
    /\ ~excuse /\ at[t] # 0 => at[t] \in DOMAIN mem.scripts
    /\ ~excuse /\ wanted[req[t].name] # None => Has(mem.scripts, req[t].name, Hole)

\* A script without content is one that is being updated.
HoleInv == ~excuse =>
    /\ \A i \in DOMAIN mem.scripts : mem.scripts[i].content = Hole =>
          \E t \in Threads : pc[t] = "fill" /\ at[t] = i
    /\ ~mem.loaded => ~HasHole(file.scripts)

\* Before there is an array: if the file has none either, nothing was added.
UnloadedInv == ~mem.loaded /\ ~excuse /\ file.state = "broken" =>
    \A n \in Names : wanted[n] = None

\* What was added is in memory, if no one is updating it.
MemInv == ~excuse /\ mem.loaded =>
    \A n \in Names : wanted[n] # None /\ ~At({"fill"}, n) => Has(mem.scripts, n, wanted[n])

\* The walk so far has written, in their order, the scripts of the array it goes
\* through, which has not become shorter; unless a script was removed.
WalkInv == Walking =>
    /\ walk.lost => excuse
    /\ "file" \notin shuffled =>
          /\ Unique(Walked)
          /\ "mem" \notin shuffled
          /\ Len(walk.out) <= walk.size /\ walk.size <= Len(Walked)
          /\ \A i \in DOMAIN walk.out : walk.out[i].name = Walked[i].name

\* Script n was in the array when the walk began, and if the walk has come past
\* it, it wrote the content last added, or none while the script is updated.
WrittenSoFar(n) == \E i \in DOMAIN mem.scripts :
    /\ i <= walk.size
    /\ mem.scripts[i].name = n
    /\ i <= Len(walk.out) =>
          walk.out[i].content = wanted[n] \/ (walk.out[i].content = Hole /\ At({"fill"}, n))

WalkedInv == Walking /\ ~excuse /\ "file" \notin shuffled =>
    \A n \in Names : wanted[n] # None /\ ~At({"save"}, n) => WrittenSoFar(n)

\* What was added and saved is on file, unless it is being written; or a hole,
\* while it is updated.
FileInv == ~excuse /\ "file" \notin shuffled =>
    \A n \in Names : wanted[n] # None /\ ~At({"save", "dump"}, n) =>
        \/ Walking
        \/ /\ file.state = "ok"
           /\ \/ Has(file.scripts, n, wanted[n])
              \/ Has(file.scripts, n, Hole) /\ At({"fill"}, n)

\* What exec_script uses is stored, or someone is known to have edited it.
ExecInv ==
    /\ ~excuse => \A t \in Threads : pc[t] = "exec" /\ t \notin edited =>
          Has(mem.scripts, req[t].name, uses[t])
    /\ \A t, u \in Threads :
          pc[t] = "fill" /\ pc[u] = "exec" /\ req[t].name = req[u].name => u \in edited

IInv ==
    /\ StoreTypeOK /\ LoadedInv /\ OpInv /\ LocksInv /\ ColdInv /\ UniqueInv /\ ShuffledInv
    /\ FillInv /\ HoleInv /\ UnloadedInv /\ MemInv /\ WalkInv /\ WalkedInv /\ FileInv /\ ExecInv

(***************************************************************************)
(* Lemmas about lists of scripts.                                           *)
(***************************************************************************)
LEMMA HasIs ==
    ASSUME NEW s \in Seq(Script), NEW n \in Names, NEW c \in Contents \cup {Hole}
    PROVE  [name |-> n, content |-> c] \in Range(s) <=> Has(s, n, c)
<1>1. \A i \in DOMAIN s : s[i] \in Script
    OBVIOUS
<1>2. ASSUME NEW i \in DOMAIN s, s[i].name = n, s[i].content = c
      PROVE  s[i] = [name |-> n, content |-> c]
    BY <1>1, <1>2 DEF Script
<1> QED BY <1>2 DEF Range, Has

\* The loop finds the first script of a name, if there is one.
LEMMA IndexFinds ==
    ASSUME mem.scripts \in Seq(Script), NEW n
    PROVE  /\ IndexOf(n) \in Nat
           /\ IndexOf(n) = 0 \/ IndexOf(n) \in DOMAIN mem.scripts
           /\ IndexOf(n) = 0 => \A i \in DOMAIN mem.scripts : mem.scripts[i].name # n
           /\ IndexOf(n) # 0 => mem.scripts[IndexOf(n)].name = n
<1> DEFINE I == {i \in 1 .. Len(mem.scripts) : mem.scripts[i].name = n}
<1>1. IndexOf(n) = IF I # {} THEN Min(I) ELSE 0
    BY DEF IndexOf, SelectInSeq
<1>2. DOMAIN mem.scripts = 1 .. Len(mem.scripts) /\ Len(mem.scripts) \in Nat
    OBVIOUS
<1>3. CASE I = {}
    BY <1>1, <1>2, <1>3
<1>4. CASE I # {}
    <2>1. I \subseteq Nat
        BY <1>2
    <2>2. PICK i \in I : \A j \in I : ~(<<j, i>> \in {p \in Nat \X Nat : p[1] < p[2]})
        <3>1. IsWellFoundedOn({p \in Nat \X Nat : p[1] < p[2]}, Nat)
            BY NatLessThanWellFounded DEF OpToRel
        <3> HIDE DEF I
        <3> QED BY <1>4, <2>1, <3>1, WFMin
    <2>3. \A j \in I : i <= j
        <3> HIDE DEF I
        <3>1. ASSUME NEW j \in I, j < i
              PROVE  <<j, i>> \in {p \in Nat \X Nat : p[1] < p[2]}
            BY <2>1, <3>1
        <3>2. \A j \in I : ~(j < i)
            BY <2>2, <3>1
        <3>3. \A j \in I : j \in Nat /\ i \in Nat
            BY <2>1
        <3> QED BY <3>2, <3>3
    <2>4. Min(I) \in I
        <3> HIDE DEF I
        <3> QED BY <2>2, <2>3 DEF Min
    <2> QED BY <1>1, <1>2, <1>4, <2>1, <2>4
<1> QED BY <1>3, <1>4

\* A list without its i-th script.
LEMMA Removal ==
    ASSUME NEW s \in Seq(Script), NEW i \in 1 .. Len(s)
    PROVE  /\ RemoveAt(s, i) \in Seq(Script)
           /\ Len(RemoveAt(s, i)) = Len(s) - 1
           /\ \A j \in 1 .. Len(s) - 1 :
                 RemoveAt(s, i)[j] = IF j < i THEN s[j] ELSE s[j + 1]
<1> DEFINE a == SubSeq(s, 1, i - 1)
           b == SubSeq(s, i + 1, Len(s))
<1>0. Len(s) \in Nat /\ i \in Nat /\ i >= 1 /\ i <= Len(s) /\ \A j \in 1 .. Len(s) : s[j] \in Script
    OBVIOUS
<1>1. a \in Seq(Script) /\ Len(a) = i - 1 /\ \A j \in 1 .. i - 1 : a[j] = s[j]
    <2>1. \A j \in 1 .. i - 1 : s[j] \in Script
        BY <1>0
    <2> QED BY <1>0, <2>1, SubSeqProperties
<1>2. b \in Seq(Script) /\ Len(b) = Len(s) - i /\ \A j \in 1 .. Len(s) - i : b[j] = s[i + j]
    <2>1. \A j \in i + 1 .. Len(s) : s[j] \in Script
        BY <1>0
    <2>2. /\ b \in Seq(Script)
          /\ Len(b) = IF i + 1 <= Len(s) THEN Len(s) - (i + 1) + 1 ELSE 0
          /\ \A j \in 1 .. Len(s) - (i + 1) + 1 : b[j] = s[i + 1 + j - 1]
        BY <1>0, <2>1, SubSeqProperties
    <2> HIDE DEF b
    <2> QED BY <1>0, <2>2
<1> HIDE DEF a, b
<1>3. /\ a \o b \in Seq(Script) /\ Len(a \o b) = Len(s) - 1
      /\ \A j \in 1 .. Len(s) - 1 : (a \o b)[j] = IF j <= i - 1 THEN a[j] ELSE b[j - (i - 1)]
    <2>1. /\ a \o b \in Seq(Script) /\ Len(a \o b) = Len(a) + Len(b)
          /\ \A j \in 1 .. Len(a) + Len(b) :
                (a \o b)[j] = IF j <= Len(a) THEN a[j] ELSE b[j - Len(a)]
        BY <1>1, <1>2, ConcatProperties
    <2> QED BY <1>0, <1>1, <1>2, <2>1
<1>4. ASSUME NEW j \in 1 .. Len(s) - 1
      PROVE  (a \o b)[j] = IF j < i THEN s[j] ELSE s[j + 1]
    <2>1. CASE j < i
        BY <1>0, <1>1, <1>3, <2>1
    <2>2. CASE j >= i
        <3>1. j - (i - 1) \in 1 .. Len(s) - i /\ i + (j - (i - 1)) = j + 1
            BY <1>0, <2>2
        <3>2. (a \o b)[j] = b[j - (i - 1)]
            BY <1>0, <1>3, <2>2
        <3>3. ~(j < i)
            BY <1>0, <2>2
        <3> QED BY <1>2, <3>1, <3>2, <3>3
    <2>3. j < i \/ j >= i
        BY <1>0
    <2> QED BY <2>1, <2>2, <2>3
<1> QED BY <1>3, <1>4 DEF RemoveAt, a, b

LEMMA RemovalKeeps ==
    ASSUME NEW s \in Seq(Script), NEW i \in 1 .. Len(s)
    PROVE  /\ RemoveAt(s, i) \in Seq(Script)
           /\ Unique(s) => Unique(RemoveAt(s, i))
           /\ HasHole(RemoveAt(s, i)) => HasHole(s)
           /\ \A n, c : n # s[i].name => (Has(s, n, c) => Has(RemoveAt(s, i), n, c))
<1> DEFINE r == RemoveAt(s, i)
           from(j) == IF j < i THEN j ELSE j + 1
<1>1. /\ r \in Seq(Script) /\ Len(r) = Len(s) - 1 /\ Len(s) \in Nat
      /\ DOMAIN r = 1 .. Len(s) - 1 /\ DOMAIN s = 1 .. Len(s)
      /\ \A j \in DOMAIN r : from(j) \in DOMAIN s /\ r[j] = s[from(j)]
    <2>1. r \in Seq(Script) /\ Len(r) = Len(s) - 1 /\ Len(s) \in Nat
        BY Removal
    <2>2. DOMAIN r = 1 .. Len(s) - 1 /\ DOMAIN s = 1 .. Len(s)
        BY <2>1
    <2>3. \A j \in DOMAIN r : r[j] = IF j < i THEN s[j] ELSE s[j + 1]
        BY <2>2, Removal
    <2> QED BY <2>1, <2>2, <2>3
<1> HIDE DEF r
<1>2. Unique(s) => Unique(r)
    BY <1>1 DEF Unique
<1>3. HasHole(r) => HasHole(s)
    BY <1>1 DEF HasHole
<1>4. ASSUME NEW n, NEW c, n # s[i].name, Has(s, n, c)
      PROVE  Has(r, n, c)
    <2>1. PICK k \in DOMAIN s : s[k].name = n /\ s[k].content = c
        BY <1>4 DEF Has
    <2>2. CASE k < i
        BY <1>1, <2>1, <2>2 DEF Has
    <2>3. CASE k > i
        <3>1. k - 1 \in DOMAIN r /\ from(k - 1) = k
            BY <1>1, <2>1, <2>3
        <3> QED BY <1>1, <2>1, <3>1 DEF Has
    <2> QED BY <1>1, <1>4, <2>1, <2>2, <2>3
<1> QED BY <1>1, <1>2, <1>3, <1>4 DEF r

\* A list whose i-th script, of that name, gets another content.
LEMMA ChangeKeeps ==
    ASSUME NEW s \in Seq(Script), NEW i \in DOMAIN s, NEW c \in Contents \cup {Hole},
           NEW r, DOMAIN r = DOMAIN s, r \in Seq(Script),
           \A j \in DOMAIN s : r[j] = IF j = i THEN [name |-> s[i].name, content |-> c] ELSE s[j]
    PROVE  /\ Unique(s) => Unique(r)
           /\ Has(r, s[i].name, c)
           /\ \A n, d : n # s[i].name => (Has(s, n, d) <=> Has(r, n, d))
BY DEF Unique, Has

LEMMA AppendKeeps ==
    ASSUME NEW s \in Seq(Script), NEW x \in Script,
           \A j \in DOMAIN s : s[j].name # x.name
    PROVE  /\ Append(s, x) \in Seq(Script)
           /\ Unique(s) => Unique(Append(s, x))
           /\ Len(Append(s, x)) = Len(s) + 1
           /\ Has(Append(s, x), x.name, x.content)
           /\ \A n, d : Has(s, n, d) => Has(Append(s, x), n, d)
           /\ \A j \in DOMAIN Append(s, x) : Append(s, x)[j] = x \/ (j \in DOMAIN s /\ Append(s, x)[j] = s[j])
<1> DEFINE r == Append(s, x)
<1>1. /\ r \in Seq(Script) /\ DOMAIN r = 1 .. Len(s) + 1 /\ DOMAIN s = 1 .. Len(s)
      /\ Len(s) \in Nat /\ Len(r) = Len(s) + 1
      /\ r[Len(s) + 1] = x /\ \A j \in DOMAIN s : r[j] = s[j]
    OBVIOUS
<1> HIDE DEF r
<1>2. \A j \in DOMAIN r : (j \in DOMAIN s /\ r[j] = s[j]) \/ (j = Len(s) + 1 /\ r[j] = x)
    BY <1>1
<1>3. Unique(s) => Unique(r)
    BY <1>1, <1>2 DEF Unique
<1>4. Has(r, x.name, x.content) /\ \A n, d : Has(s, n, d) => Has(r, n, d)
    BY <1>1 DEF Has
<1> QED BY <1>1, <1>2, <1>3, <1>4 DEF r

(***************************************************************************)
(* The inductive invariant.                                                *)
(***************************************************************************)
LEMMA NoRequestIs == NoRequest \in Request
<1>1. PICK n \in Names : TRUE
    BY StoreAssumption
<1>2. [op |-> "get_script", name |-> n, content |-> None] \in Request
    BY DEF Request
<1> QED BY <1>2 DEF NoRequest

LEMMA NoWalkIs ==
    NoWalk \in [size : Nat, out : Seq(Script), lost : BOOLEAN, from : Seq(Script)]
<1>1. \A e \in Seq(Script) :
          [size |-> 0, out |-> e, lost |-> FALSE, from |-> e]
              \in [size : Nat, out : Seq(Script), lost : BOOLEAN, from : Seq(Script)]
    OBVIOUS
<1>2. <<>> \in Seq(Script)
    BY EmptySeq
<1> QED BY <1>1, <1>2 DEF NoWalk

LEMMA InitIInv == Init => IInv
<1> SUFFICES ASSUME Init PROVE IInv
    OBVIOUS
<1> USE DEF Init, NoArray
<1>1. /\ file \in [state : {"ok", "broken"}, scripts : Seq(Script)]
      /\ Unique(file.scripts) /\ ~HasHole(file.scripts)
    <2>1. /\ file \in [state : {"ok", "broken"}, scripts : Seq([name : Names, content : Contents])]
          /\ file.scripts \in Seq([name : Names, content : Contents])
          /\ Unique(file.scripts)
        BY FilesAssumption DEF Unique
    <2>2. Len(file.scripts) \in Nat /\ DOMAIN file.scripts = 1 .. Len(file.scripts)
          /\ \A i \in DOMAIN file.scripts : file.scripts[i] \in [name : Names, content : Contents]
        <3> DEFINE W == [name : Names, content : Contents]
        <3>0. file.scripts \in Seq(W)
            BY <2>1
        <3> HIDE DEF Init, W
        <3>1. \A S : \A q \in Seq(S) : Len(q) \in Nat /\ DOMAIN q = 1 .. Len(q)
            BY LenProperties
        <3>2. \A S : \A q \in Seq(S) : \A i \in 1 .. Len(q) : q[i] \in S
            BY ElementOfSeq
        <3>3. Len(file.scripts) \in Nat /\ DOMAIN file.scripts = 1 .. Len(file.scripts)
            BY <3>0, <3>1
        <3>4. \A i \in DOMAIN file.scripts : file.scripts[i] \in W
            BY <3>0, <3>2, <3>3
        <3> QED BY <3>3, <3>4 DEF W
    <2>3. ~HasHole(file.scripts)
        BY <2>2, StoreAssumption DEF HasHole
    <2>4. [name : Names, content : Contents] \subseteq Script
        BY DEF Script
    <2>5. file.scripts \in Seq(Script)
        <3> HIDE DEF Init
        <3>1. \A S : \A q \in Seq(S) : S \subseteq Script => q \in Seq(Script)
            BY SeqMonotonic
        <3> QED BY <2>1, <2>4, <3>1
    <2> QED BY <2>1, <2>3, <2>5
<1>2. StoreTypeOK
    <2>1. req \in [Threads -> Request]
        BY NoRequestIs
    <2>2. mem \in [loaded : BOOLEAN, scripts : Seq(Script)] /\ excuse \in BOOLEAN
        BY EmptySeq
    <2>3. wanted \in [Names -> Contents \cup {None}]
        OBVIOUS
    <2>4. uses \in [Threads -> Contents \cup {None}]
        OBVIOUS
    <2>5. /\ fileio = None
          /\ memio \in [excl : Threads \cup {None}, shared : SUBSET Threads, leaked : BOOLEAN]
          /\ pc \in [Threads -> {"idle"}] /\ at \in [Threads -> Nat] /\ edited = {}
          /\ shuffled = {} /\ walk = NoWalk
        OBVIOUS
    <2> HIDE DEF Init
    <2> QED BY <1>1, <2>1, <2>2, <2>3, <2>4, <2>5, NoWalkIs DEF StoreTypeOK
<1>3. LoadedInv /\ OpInv /\ LocksInv /\ ColdInv
    BY StoreAssumption DEF LoadedInv, OpInv, LocksInv, ColdInv, Past
<1>4. UniqueInv /\ ShuffledInv /\ FillInv /\ HoleInv /\ UnloadedInv
    BY <1>1 DEF UniqueInv, Unique, ShuffledInv, FillInv, HoleInv, UnloadedInv
<1>5. MemInv /\ WalkInv /\ WalkedInv /\ FileInv /\ ExecInv
    BY DEF MemInv, WalkInv, WalkedInv, Walking, FileInv, ExecInv
<1> QED BY <1>2, <1>3, <1>4, <1>5 DEF IInv

Labels == {"idle", "loadlock", "recheck", "loading", "reread", "create", "parse", "op",
           "reading", "exec", "find", "fill", "save", "dump"}

\* Only one thread changes its place; the others keep place and request.
LEMMA OthersStay ==
    ASSUME IInv, NEW t \in Threads, NEW l \in Labels, Goto(t, l)
    PROVE  /\ pc'[t] = l
           /\ \A u \in Threads : u # t => pc'[u] = pc[u]
           /\ pc' \in [Threads -> Labels]
BY DEF Goto, IInv, StoreTypeOK, Labels

LEMMA Returned ==
    ASSUME IInv, NEW t \in Threads, Return(t)
    PROVE  /\ pc'[t] = "idle"
           /\ \A u \in Threads : u # t => pc'[u] = pc[u] /\ req'[u] = req[u]
           /\ pc' \in [Threads -> Labels]
           /\ req' \in [Threads -> Request]
<1>1. Goto(t, "idle") /\ req' = [req EXCEPT ![t] = NoRequest]
    BY DEF Return
<1>2. req' \in [Threads -> Request] /\ \A u \in Threads : u # t => req'[u] = req[u]
    BY <1>1, NoRequestIs DEF IInv, StoreTypeOK
<1> QED BY <1>1, <1>2, OthersStay DEF Labels

LEMMA AtStays ==
    ASSUME NEW t \in Threads, NEW locs,
           \A u \in Threads : u # t => pc'[u] = pc[u] /\ req'[u] = req[u],
           pc[t] \notin locs, pc'[t] \notin locs
    PROVE  \A n : At(locs, n)' <=> At(locs, n)
BY DEF At

\* The file lock has one owner.
LEMMA OneOwner ==
    ASSUME IInv, NEW t \in Threads
    PROVE  /\ pc[t] \in {"recheck", "loading", "dump"} =>
                  \A u \in Threads : u # t => pc[u] \notin {"recheck", "loading", "dump"}
           /\ fileio \in {None, Leaked} => \A u \in Threads : pc[u] \notin {"recheck", "loading", "dump"}
BY StoreAssumption DEF IInv, LocksInv, Leaked

\* An operation that changes the array is alone with it.
LEMMA OneWriter ==
    ASSUME IInv, NEW t \in Threads
    PROVE  /\ pc[t] \in {"find", "fill"} =>
                  \A u \in Threads : u # t => pc[u] \notin {"find", "fill", "reading"}
           /\ memio.excl = None => \A u \in Threads : pc[u] \notin {"find", "fill"}
BY StoreAssumption DEF IInv, LocksInv

\* Without an excuse no name is in the array twice.
LEMMA NoExcuse ==
    ASSUME IInv, ~excuse
    PROVE  Unique(mem.scripts) /\ (Walking => ~walk.lost)
BY DEF IInv, ShuffledInv, UniqueInv, WalkInv

\* The parts of the invariant about the locks and the requests.
Control == StoreTypeOK /\ OpInv /\ LocksInv /\ ExecInv

\* The parts about the array and the file.
Data ==
    /\ LoadedInv /\ ColdInv /\ UniqueInv /\ ShuffledInv /\ FillInv /\ HoleInv /\ UnloadedInv
    /\ MemInv /\ WalkInv /\ WalkedInv /\ FileInv

\* A step that changes neither the array nor the file.
LEMMA DataStays ==
    ASSUME IInv, NEW t \in Threads, NEW l, pc'[t] = l,
           \A u \in Threads : u # t => pc'[u] = pc[u] /\ req'[u] = req[u],
           pc[t] \notin {"loading", "fill", "save", "dump"}, l \notin {"fill", "save", "dump"},
           l \in Past => pc[t] \in Past \/ mem.loaded,
           l \in {"reread", "create"} => pc[t] \in {"reread", "create"} \/ mem.loaded,
           l = "loading" => ~mem.loaded,
           UNCHANGED <<mem, file, at, walk, wanted, shuffled, excuse>>
    PROVE  Data'
<1>1. \A n : /\ At({"fill"}, n)' <=> At({"fill"}, n)
             /\ At({"save"}, n)' <=> At({"save"}, n)
             /\ At({"save", "dump"}, n)' <=> At({"save", "dump"}, n)
    BY AtStays
<1>2. Walking' <=> Walking
    BY DEF Walking
<1>3. LoadedInv'
    BY DEF IInv, LoadedInv, Past
<1>4. ColdInv'
    BY DEF IInv, ColdInv, Past
<1>5. UniqueInv' /\ ShuffledInv' /\ UnloadedInv'
    BY DEF IInv, UniqueInv, ShuffledInv, UnloadedInv
<1>6. FillInv' /\ HoleInv'
    BY DEF IInv, FillInv, HoleInv
<1>7. MemInv' /\ FileInv'
    BY <1>1, <1>2 DEF IInv, MemInv, FileInv
<1>8. WalkInv'
    BY <1>2 DEF IInv, WalkInv, Walked
<1>9. WalkedInv'
    BY <1>1, <1>2 DEF IInv, WalkedInv, WrittenSoFar
<1> QED BY <1>3, <1>4, <1>5, <1>6, <1>7, <1>8, <1>9 DEF Data

LEMMA TogetherIInv ==
    ASSUME Control', Data'
    PROVE  IInv'
BY DEF Control, Data, IInv

\* The steps before an operation, which leave the locks of the array alone.
LEMMA LoadControl ==
    ASSUME IInv, NEW t \in Threads,
           NEW l \in {"loadlock", "recheck", "loading", "reread", "create", "parse", "op"},
           Goto(t, l),
           pc[t] \in {"idle", "loadlock", "recheck", "loading", "reread", "create", "parse"},
           req' \in [Threads -> Request], \A u \in Threads : u # t => req'[u] = req[u],
           fileio' \in Threads \cup {None, Leaked},
           \A u \in Threads : u # t => (fileio' = u <=> fileio = u),
           fileio' = t <=> l \in {"recheck", "loading"},
           mem' \in [loaded : BOOLEAN, scripts : Seq(Script)],
           walk' \in [size : Nat, out : Seq(Script), lost : BOOLEAN, from : Seq(Script)],
           shuffled' \subseteq {"mem", "file"},
           excuse' \in BOOLEAN,
           mem'.scripts = mem.scripts \/ (~excuse' => ~mem.loaded),
           ~excuse' => ~excuse,
           UNCHANGED <<file, memio, at, uses, edited, wanted>>
    PROVE  Control'
<1>0. /\ pc'[t] = l /\ \A u \in Threads : u # t => pc'[u] = pc[u]
      /\ pc' \in [Threads -> Labels]
    BY OthersStay DEF Labels
<1>1. StoreTypeOK'
    BY <1>0 DEF IInv, StoreTypeOK, Labels
<1>2. OpInv'
    BY <1>0 DEF IInv, OpInv
<1>a. /\ pc[t] \notin {"find", "fill", "reading", "exec"}
      /\ pc'[t] \notin {"find", "fill", "reading", "exec"}
    BY <1>0
<1>3. LocksInv'
    <2>1. \A u \in Threads : fileio' = u <=> pc'[u] \in {"recheck", "loading", "dump"}
        BY <1>0 DEF IInv, LocksInv
    <2>2. /\ \A u \in Threads : memio'.excl = u <=> pc'[u] \in {"find", "fill"}
          /\ \A u \in Threads : u \in memio'.shared <=> pc'[u] = "reading"
          /\ memio'.excl # None => memio'.shared = {}
        <3>1. LocksInv /\ memio' = memio
            BY DEF IInv
        <3>2. \A u \in Threads : memio.excl = u <=> pc'[u] \in {"find", "fill"}
            BY <1>0, <1>a, <3>1 DEF LocksInv
        <3>3. \A u \in Threads : u \in memio.shared <=> pc'[u] = "reading"
            BY <1>0, <1>a, <3>1 DEF LocksInv
        <3>4. memio.excl # None => memio.shared = {}
            BY <3>1 DEF LocksInv
        <3> QED BY <3>1, <3>2, <3>3, <3>4
    <2> QED BY <2>1, <2>2 DEF LocksInv
<1>4. ExecInv'
    <2>1. \A u \in Threads : pc'[u] \in {"exec", "fill"} =>
              u # t /\ pc[u] = pc'[u] /\ req'[u] = req[u]
        BY <1>0, <1>a
    <2>2. ~excuse' /\ ~mem.loaded => \A u \in Threads : pc[u] # "exec"
        BY DEF IInv, LoadedInv, Past
    <2>3. ExecInv /\ UNCHANGED <<uses, edited>>
        BY DEF IInv
    <2>4. ASSUME ~excuse', NEW u \in Threads, pc'[u] = "exec", u \notin edited'
          PROVE  Has(mem'.scripts, req'[u].name, uses'[u])
        <3>1. pc[u] = "exec" /\ u \notin edited /\ mem'.scripts = mem.scripts
            BY <2>1, <2>2, <2>3, <2>4
        <3>2. Has(mem.scripts, req[u].name, uses[u])
            BY <2>3, <2>4, <3>1 DEF ExecInv
        <3> QED BY <2>1, <2>3, <2>4, <3>1, <3>2
    <2>5. \A u, v \in Threads : pc'[u] = "fill" /\ pc'[v] = "exec" /\ req'[u].name = req'[v].name
              => v \in edited'
        BY <2>1, <2>3 DEF ExecInv
    <2> QED BY <2>4, <2>5 DEF ExecInv
<1> QED BY <1>1, <1>2, <1>3, <1>4 DEF Control

LEMMA LoadIInv ==
    ASSUME IInv, NEW t \in Threads,
           \/ Call(t) \/ LoadLock(t) \/ RecheckLoaded(t) \/ RecheckLoad(t)
           \/ Reread(t) \/ Parse(t)
    PROVE  IInv'
<1>1. /\ req' \in [Threads -> Request] /\ \A u \in Threads : u # t => req'[u] = req[u]
      /\ fileio' \in Threads \cup {None, Leaked}
      /\ UNCHANGED <<mem, file, memio, at, uses, walk, edited, wanted, shuffled, excuse>>
    <2>1. req \in [Threads -> Request] /\ fileio \in Threads \cup {None, Leaked}
        BY DEF IInv, StoreTypeOK
    <2>2. CASE Parse(t)
        <3>1. PICK q \in Request : req' = [req EXCEPT ![t] = q]
            BY <2>2 DEF Parse
        <3> QED BY <2>1, <2>2, <3>1 DEF Parse
    <2>3. CASE Call(t) \/ LoadLock(t) \/ RecheckLoaded(t) \/ RecheckLoad(t) \/ Reread(t)
        BY <2>1, <2>3 DEF Call, LoadLock, RecheckLoaded, RecheckLoad, Reread
    <2> QED BY <2>2, <2>3
<1>2. PICK l \in {"loadlock", "recheck", "loading", "create", "parse", "op"} :
          /\ Goto(t, l)
          /\ l \in Past => pc[t] \in Past \/ mem.loaded
          /\ l = "create" => pc[t] = "reread"
          /\ l = "loading" => ~mem.loaded
          /\ fileio' = t <=> l \in {"recheck", "loading"}
          /\ \A u \in Threads : u # t => (fileio' = u <=> fileio = u)
          /\ pc[t] \in {"idle", "loadlock", "recheck", "reread", "parse"}
    <2>1. CASE Call(t) \/ Reread(t) \/ Parse(t)
        <3>1. fileio' = fileio /\ pc[t] \in {"idle", "reread", "parse"}
            BY <2>1 DEF Call, Reread, Parse
        <3>2. fileio # t
            BY <3>1 DEF IInv, LocksInv
        <3> QED BY <2>1, <3>1, <3>2 DEF Call, Reread, Parse, Past
    <2>2. CASE LoadLock(t)
        BY <2>2, StoreAssumption DEF LoadLock, Past
    <2>3. CASE RecheckLoaded(t)
        <3>1. fileio = t
            BY <2>3 DEF RecheckLoaded, IInv, LocksInv
        <3> QED BY <2>3, <3>1, StoreAssumption DEF RecheckLoaded, Leaked
    <2>4. CASE RecheckLoad(t)
        <3>1. fileio = t
            BY <2>4 DEF RecheckLoad, IInv, LocksInv
        <3> QED BY <2>4, <3>1 DEF RecheckLoad, Past
    <2> QED BY <2>1, <2>2, <2>3, <2>4
<1>3. pc'[t] = l /\ \A u \in Threads : u # t => pc'[u] = pc[u]
    BY <1>2, OthersStay DEF Labels
<1>4. Control'
    <2>1. /\ mem \in [loaded : BOOLEAN, scripts : Seq(Script)]
          /\ walk \in [size : Nat, out : Seq(Script), lost : BOOLEAN, from : Seq(Script)]
          /\ shuffled \subseteq {"mem", "file"} /\ excuse \in BOOLEAN
        BY DEF IInv, StoreTypeOK
    <2>2. l \in {"loadlock", "recheck", "loading", "reread", "create", "parse", "op"}
        OBVIOUS
    <2>3. pc[t] \in {"idle", "loadlock", "recheck", "loading", "reread", "create", "parse"}
        BY <1>2
    <2>4. /\ Goto(t, l)
          /\ fileio' \in Threads \cup {None, Leaked}
          /\ \A u \in Threads : u # t => (fileio' = u <=> fileio = u)
          /\ fileio' = t <=> l \in {"recheck", "loading"}
        BY <1>1, <1>2
    <2>5. mem' \in [loaded : BOOLEAN, scripts : Seq(Script)]
        BY <1>1, <2>1
    <2>6. walk' \in [size : Nat, out : Seq(Script), lost : BOOLEAN, from : Seq(Script)]
        BY <1>1, <2>1
    <2>7. /\ shuffled' \subseteq {"mem", "file"} /\ excuse' \in BOOLEAN
          /\ mem'.scripts = mem.scripts \/ (~excuse' => ~mem.loaded)
          /\ ~excuse' => ~excuse
          /\ UNCHANGED <<file, memio, at, uses, edited, wanted>>
        BY <1>1, <2>1
    <2>8. req' \in [Threads -> Request] /\ \A u \in Threads : u # t => req'[u] = req[u]
        BY <1>1
    <2> QED BY <2>2, <2>3, <2>4, <2>5, <2>6, <2>7, <2>8, LoadControl
<1>5. Data'
    BY <1>1, <1>2, <1>3, DataStays
<1> QED BY <1>4, <1>5, TogetherIInv

\* The end of the load: an array only comes where no request is at work.
LEMMA LoadEndIInv ==
    ASSUME IInv, NEW t \in Threads, LoadEnd(t)
    PROVE  IInv'
<1> USE DEF NoArray
<1>0. /\ pc'[t] = "reread" /\ \A u \in Threads : u # t => pc'[u] = pc[u]
      /\ pc' \in [Threads -> Labels] /\ pc[t] = "loading"
      /\ mem'.loaded <=> file.state = "ok"
      /\ mem'.scripts = IF file.state = "ok" THEN file.scripts ELSE <<>>
      /\ mem' \in {[loaded |-> TRUE, scripts |-> file.scripts], NoArray}
      /\ shuffled' = IF "file" \in shuffled THEN {"mem", "file"} ELSE {}
      /\ excuse' = (excuse \/ mem.loaded) /\ fileio' = None
      /\ UNCHANGED <<file, memio, req, at, uses, walk, edited, wanted>>
    BY OthersStay DEF LoadEnd, FromFile, Labels
<1>1. /\ \A u \in Threads : u # t => pc[u] \notin {"recheck", "loading", "dump"}
      /\ \A u \in Threads : pc'[u] \notin {"recheck", "loading", "dump"}
      /\ ~Walking /\ ~Walking'
    BY <1>0, OneOwner DEF Walking
<1>2. /\ ~excuse' => ~mem.loaded /\ ~excuse
      /\ ~excuse' => \A u \in Threads : pc[u] \notin Past
    BY <1>0 DEF IInv, StoreTypeOK, LoadedInv
<1>3. mem' \in [loaded : BOOLEAN, scripts : Seq(Script)]
    <2>1. file.scripts \in Seq(Script) /\ <<>> \in Seq(Script)
        BY EmptySeq DEF IInv, StoreTypeOK
    <2>2. CASE mem' = [loaded |-> TRUE, scripts |-> file.scripts]
        BY <2>1, <2>2
    <2>3. CASE mem' = [loaded |-> FALSE, scripts |-> <<>>]
        BY <2>1, <2>3
    <2> QED BY <1>0, <2>2, <2>3
<1>4. Control'
    <2>1. fileio = t
        BY <1>0 DEF IInv, LocksInv
    <2>2. \A u \in Threads : u # t => (fileio' = u <=> fileio = u)
        BY <1>0, <2>1, StoreAssumption
    <2>3. fileio' # t
        BY <1>0, StoreAssumption
    <2>4. /\ walk \in [size : Nat, out : Seq(Script), lost : BOOLEAN, from : Seq(Script)]
          /\ req \in [Threads -> Request]
        BY DEF IInv, StoreTypeOK
    <2>5. excuse' \in BOOLEAN /\ shuffled' \subseteq {"mem", "file"}
        BY <1>0
    <2>6. Goto(t, "reread")
        BY DEF LoadEnd
    <2> QED BY <1>0, <1>2, <1>3, <2>2, <2>3, <2>4, <2>5, <2>6, LoadControl
<1>5. LoadedInv' /\ ColdInv'
    BY <1>0, <1>1, <1>2 DEF IInv, LoadedInv, ColdInv, StoreTypeOK, Past
<1>6. UniqueInv' /\ ShuffledInv'
    <2>1. UniqueInv'
        BY <1>0 DEF IInv, UniqueInv, Unique
    <2>2. "mem" \in shuffled' \/ "file" \in shuffled' => "file" \in shuffled
        BY <1>0
    <2>3. "file" \in shuffled => excuse'
        BY <1>0 DEF IInv, ShuffledInv
    <2> QED BY <2>1, <2>2, <2>3 DEF ShuffledInv
<1>7. FillInv'
    <2>1. ASSUME NEW u \in Threads, pc'[u] = "fill"
          PROVE  DOMAIN mem'.scripts = {} /\ excuse'
        <3>1. u # t /\ pc[u] = "fill" /\ pc[u] \in Past
            BY <1>0, <2>1 DEF Past
        <3>2. file.state = "broken"
            BY <1>0, <3>1 DEF IInv, ColdInv
        <3>3. mem'.scripts = <<>>
            BY <1>0, <3>2
        <3> QED BY <1>2, <3>1, <3>3
    <2> QED BY <2>1 DEF FillInv
<1>8. HoleInv' /\ UnloadedInv'
    BY <1>0, <1>2 DEF IInv, HoleInv, HasHole, UnloadedInv, StoreTypeOK
<1>9. \A n : /\ At({"fill"}, n)' <=> At({"fill"}, n)
             /\ At({"save", "dump"}, n)' <=> At({"save", "dump"}, n)
             /\ ~excuse' => ~At({"fill"}, n) /\ ~At({"save", "dump"}, n)
    BY <1>0, <1>2 DEF At, Past
<1>10. FileInv'
    BY <1>0, <1>1, <1>2, <1>9 DEF IInv, FileInv
<1>11. MemInv'
    <2>1. ~excuse' => "file" \notin shuffled
        BY <1>2 DEF IInv, ShuffledInv
    <2>2. ~excuse' /\ mem'.loaded =>
              \A n \in Names : wanted[n] # None => Has(file.scripts, n, wanted[n])
        BY <1>0, <1>1, <1>2, <1>9, <2>1 DEF IInv, FileInv
    <2> QED BY <1>0, <2>2 DEF MemInv
<1>12. WalkInv' /\ WalkedInv'
    BY <1>1 DEF WalkInv, WalkedInv
<1> QED BY <1>4, <1>5, <1>6, <1>7, <1>8, <1>10, <1>11, <1>12, TogetherIInv DEF Data

\* The first request creates the array, or replaces one that is there.
LEMMA CreateIInv ==
    ASSUME IInv, NEW t \in Threads, Create(t)
    PROVE  IInv'
<1>0. /\ pc'[t] = "parse" /\ \A u \in Threads : u # t => pc'[u] = pc[u]
      /\ pc' \in [Threads -> Labels] /\ pc[t] = "create"
      /\ mem' = [loaded |-> TRUE, scripts |-> <<>>]
      /\ excuse' = (excuse \/ mem.loaded) /\ shuffled' = shuffled \ {"mem"}
      /\ UNCHANGED <<file, fileio, memio, req, at, uses, edited, wanted>>
    BY OthersStay DEF Create, Labels
<1>1. ~excuse' => ~mem.loaded /\ ~excuse
    BY <1>0 DEF IInv, StoreTypeOK
<1>2. Walking' <=> Walking
    BY <1>0 DEF Walking
<1>3. /\ walk' \in [size : Nat, out : Seq(Script), lost : BOOLEAN, from : Seq(Script)]
      /\ Walking => walk'.lost /\ walk'.out = walk.out /\ walk'.size = walk.size
      /\ Walking => Walked' = Walked
    <2>0. /\ walk \in [size : Nat, out : Seq(Script), lost : BOOLEAN, from : Seq(Script)]
          /\ mem.scripts \in Seq(Script)
        BY DEF IInv, StoreTypeOK
    <2>1. CASE Walking /\ ~walk.lost
        <3>1. walk' = [walk EXCEPT !.lost = TRUE, !.from = mem.scripts]
            BY <2>1 DEF Create
        <3> QED BY <2>0, <2>1, <3>1 DEF Walked
    <2>2. CASE ~(Walking /\ ~walk.lost)
        <3>1. walk' = walk
            BY <2>2 DEF Create
        <3> QED BY <2>0, <2>2, <3>1 DEF Walked
    <2> QED BY <2>1, <2>2
<1>4. Control'
    <2>1. mem' \in [loaded : BOOLEAN, scripts : Seq(Script)]
        BY <1>0, EmptySeq
    <2>2. /\ fileio \in Threads \cup {None, Leaked} /\ req \in [Threads -> Request]
          /\ shuffled' \subseteq {"mem", "file"} /\ excuse' \in BOOLEAN
        BY <1>0 DEF IInv, StoreTypeOK
    <2>3. fileio' # t /\ fileio' = fileio
        BY <1>0 DEF IInv, LocksInv
    <2>4. Goto(t, "parse")
        BY DEF Create
    <2> QED BY <1>0, <1>1, <1>3, <2>1, <2>2, <2>3, <2>4, LoadControl
<1>5. LoadedInv'
    BY <1>0 DEF LoadedInv
<1>6. ColdInv'
    <2>1. (\E u \in Threads : pc'[u] = "loading") => file.state = "broken"
        BY <1>0 DEF IInv, ColdInv
    <2> QED BY <1>0, <2>1 DEF ColdInv
<1>7. UniqueInv' /\ ShuffledInv'
    BY <1>0 DEF IInv, UniqueInv, Unique, ShuffledInv
<1>8. \A u \in Threads : ~excuse' => pc[u] \notin Past
    BY <1>1 DEF IInv, LoadedInv
<1>9. FillInv'
    BY <1>0, <1>8 DEF FillInv, Past
<1>10. HoleInv' /\ UnloadedInv'
    BY <1>0 DEF HoleInv, UnloadedInv
<1>11. MemInv'
    <2>1. ~excuse' => \A n \in Names : wanted[n] = None
        BY <1>0, <1>1 DEF IInv, ColdInv, UnloadedInv
    <2> QED BY <1>0, <2>1 DEF MemInv
<1>12. Walking => excuse'
    BY <1>0 DEF IInv, LoadedInv, Walking
<1>13. WalkInv'
    <2> HIDE DEF Walked
    <2> QED BY <1>0, <1>2, <1>3, <1>12 DEF IInv, WalkInv
<1>14. WalkedInv'
    BY <1>2, <1>12 DEF WalkedInv
<1>15. FileInv'
    <2>1. \A n : /\ At({"fill"}, n)' <=> At({"fill"}, n)
                 /\ At({"save", "dump"}, n)' <=> At({"save", "dump"}, n)
        BY <1>0 DEF At
    <2> QED BY <1>0, <1>1, <1>2, <2>1 DEF IInv, FileInv
<1> QED BY <1>4, <1>5, <1>6, <1>7, <1>9, <1>10, <1>11, <1>13, <1>14, <1>15, TogetherIInv DEF Data

LEMMA ReadBeginIInv ==
    ASSUME IInv, NEW t \in Threads, ReadBegin(t)
    PROVE  IInv'
<1>0. /\ pc'[t] = "reading" /\ \A u \in Threads : u # t => pc'[u] = pc[u]
      /\ pc' \in [Threads -> Labels] /\ pc[t] = "op"
      /\ req[t].op \in ReadOps /\ memio.excl = None
      /\ memio' = [memio EXCEPT !.shared = @ \cup {t}]
      /\ UNCHANGED <<mem, file, fileio, req, at, uses, walk, edited, wanted, shuffled, excuse>>
    BY OthersStay DEF ReadBegin, MayRead, Labels
<1>1. memio'.excl = memio.excl /\ memio'.shared = memio.shared \cup {t} /\ memio'.leaked = memio.leaked
    BY <1>0 DEF IInv, StoreTypeOK
<1> HIDE DEF ReadBegin
<1>2. StoreTypeOK'
    BY <1>0, <1>1 DEF IInv, StoreTypeOK, Labels
<1>3. OpInv' /\ ExecInv'
    BY <1>0 DEF IInv, OpInv, ExecInv
<1>4. LocksInv'
    BY <1>0, <1>1 DEF IInv, LocksInv
<1>5. Data'
    BY <1>0, DataStays DEF Past
<1> QED BY <1>2, <1>3, <1>4, <1>5, TogetherIInv DEF Control

LEMMA ReadEndIInv ==
    ASSUME IInv, NEW t \in Threads, ReadEnd(t)
    PROVE  IInv'
<1> DEFINE n == req[t].name
<1>0. /\ pc[t] = "reading"
      /\ memio' = [memio EXCEPT !.shared = @ \ {t}, !.leaked = @ \/ FindsHole(t)]
      /\ UNCHANGED <<mem, file, fileio, at, walk, edited, wanted, shuffled, excuse>>
    BY DEF ReadEnd
<1>1. /\ memio'.excl = memio.excl /\ memio'.shared = memio.shared \ {t}
      /\ memio'.leaked \in BOOLEAN
    BY <1>0 DEF IInv, StoreTypeOK
<1>2. /\ pc' \in [Threads -> Labels] /\ pc'[t] \in {"idle", "exec"}
      /\ \A u \in Threads : u # t => pc'[u] = pc[u] /\ req'[u] = req[u]
      /\ req' \in [Threads -> Request]
      /\ pc'[t] = "exec" => req' = req /\ uses'[t] \in Contents /\ Has(mem.scripts, n, uses'[t])
      /\ uses' \in [Threads -> Contents \cup {None}]
      /\ \A u \in Threads : u # t => uses'[u] = uses[u]
    <2>0. /\ uses \in [Threads -> Contents \cup {None}] /\ req \in [Threads -> Request]
          /\ mem.scripts \in Seq(Script)
        BY DEF IInv, StoreTypeOK
    <2>1. CASE FindsContent(t)
        <3>1. /\ IndexOf(n) \in DOMAIN mem.scripts /\ mem.scripts[IndexOf(n)].name = n
            BY <2>0, <2>1, IndexFinds DEF FindsContent
        <3>2. mem.scripts[IndexOf(n)] \in Script /\ mem.scripts[IndexOf(n)].content # Hole
            BY <2>0, <2>1, <3>1 DEF FindsContent, FindsHole
        <3>3. mem.scripts[IndexOf(n)].content \in Contents
            BY <3>2 DEF Script
        <3>4. /\ uses' = [uses EXCEPT ![t] = mem.scripts[IndexOf(n)].content]
              /\ Goto(t, "exec") /\ req' = req
            BY <2>1 DEF ReadEnd
        <3>5. uses'[t] = mem.scripts[IndexOf(n)].content
            BY <2>0, <3>4
        <3>6. /\ pc'[t] = "exec" /\ pc' \in [Threads -> Labels]
              /\ \A u \in Threads : u # t => pc'[u] = pc[u]
            BY <3>4, OthersStay DEF Labels
        <3> QED BY <2>0, <3>1, <3>3, <3>4, <3>5, <3>6 DEF Has
    <2>2. CASE ~FindsContent(t)
        <3>1. Return(t) /\ uses' = uses
            BY <2>2 DEF ReadEnd
        <3> QED BY <2>0, <3>1, Returned
    <2> QED BY <2>1, <2>2
<1>3. StoreTypeOK'
    BY <1>0, <1>1, <1>2 DEF IInv, StoreTypeOK, Labels
<1>4. OpInv'
    BY <1>0, <1>2 DEF IInv, OpInv
<1>5. LocksInv'
    <2>1. \A u \in Threads : fileio = u <=> pc'[u] \in {"recheck", "loading", "dump"}
        BY <1>0, <1>2 DEF IInv, LocksInv
    <2>2. \A u \in Threads : memio.excl = u <=> pc'[u] \in {"find", "fill"}
        BY <1>0, <1>2 DEF IInv, LocksInv
    <2>3. \A u \in Threads : u \in memio'.shared <=> pc'[u] = "reading"
        BY <1>0, <1>1, <1>2 DEF IInv, LocksInv
    <2>4. memio'.excl # None => memio'.shared = {}
        BY <1>1 DEF IInv, LocksInv
    <2> QED BY <1>0, <1>1, <2>1, <2>2, <2>3, <2>4 DEF LocksInv
<1>6. ExecInv'
    <2>1. \A u \in Threads : pc[u] # "fill" /\ pc'[u] # "fill"
        BY <1>0, <1>2, OneWriter
    <2>2. \A u \in Threads : ~excuse /\ pc'[u] = "exec" /\ u \notin edited =>
              Has(mem.scripts, req'[u].name, uses'[u])
        BY <1>2 DEF IInv, ExecInv
    <2> QED BY <1>0, <2>1, <2>2 DEF ExecInv
<1>7. Data'
    BY <1>0, <1>2, DataStays DEF Past
<1> QED BY <1>3, <1>4, <1>5, <1>6, <1>7, TogetherIInv DEF Control

LEMMA ExecScriptIInv ==
    ASSUME IInv, NEW t \in Threads, ExecScript(t)
    PROVE  IInv'
<1>0. /\ pc'[t] = "idle" /\ \A u \in Threads : u # t => pc'[u] = pc[u] /\ req'[u] = req[u]
      /\ pc' \in [Threads -> Labels] /\ req' \in [Threads -> Request] /\ pc[t] = "exec"
      /\ uses' = [uses EXCEPT ![t] = None] /\ edited' = edited \ {t}
      /\ UNCHANGED <<mem, file, fileio, memio, at, walk, wanted, shuffled, excuse>>
    BY Returned DEF ExecScript
<1>1. StoreTypeOK'
    BY <1>0 DEF IInv, StoreTypeOK, Labels
<1>2. OpInv' /\ LocksInv'
    BY <1>0 DEF IInv, OpInv, LocksInv
<1>3. \A u \in Threads : u # t => uses'[u] = uses[u]
    BY <1>0 DEF IInv, StoreTypeOK
<1>4. ExecInv'
    BY <1>0, <1>3 DEF IInv, ExecInv
<1>5. Data'
    BY <1>0, DataStays DEF Past
<1> QED BY <1>1, <1>2, <1>4, <1>5, TogetherIInv DEF Control

LEMMA AddBeginIInv ==
    ASSUME IInv, NEW t \in Threads, AddBegin(t)
    PROVE  IInv'
<1>0. /\ pc'[t] = "find" /\ \A u \in Threads : u # t => pc'[u] = pc[u]
      /\ pc' \in [Threads -> Labels] /\ pc[t] = "op"
      /\ req[t].op = "add_script" /\ memio.excl = None /\ memio.shared = {}
      /\ memio' = [memio EXCEPT !.excl = t]
      /\ UNCHANGED <<mem, file, fileio, req, at, uses, walk, edited, wanted, shuffled, excuse>>
    BY OthersStay DEF AddBegin, MayWrite, Labels
<1>1. memio'.excl = t /\ memio'.shared = memio.shared /\ memio'.leaked = memio.leaked
    BY <1>0 DEF IInv, StoreTypeOK
<1>2. StoreTypeOK'
    BY <1>0, <1>1 DEF IInv, StoreTypeOK, Labels
<1>3. OpInv' /\ ExecInv'
    BY <1>0 DEF IInv, OpInv, ExecInv
<1>4. LocksInv'
    BY <1>0, <1>1, OneWriter, StoreAssumption DEF IInv, LocksInv
<1>5. Data'
    BY <1>0, DataStays DEF Past
<1> QED BY <1>2, <1>3, <1>4, <1>5, TogetherIInv DEF Control

\* The walk and what it has written, when scripts of the array are changed or
\* added, none removed.
LEMMA WalkStays ==
    ASSUME IInv, mem'.scripts \in Seq(Script),
           Len(mem.scripts) <= Len(mem'.scripts),
           \A i \in DOMAIN mem.scripts : mem'.scripts[i].name = mem.scripts[i].name,
           Unique(mem.scripts) => Unique(mem'.scripts),
           Walking' <=> Walking,
           UNCHANGED <<walk, shuffled, excuse>>
    PROVE  /\ WalkInv'
           /\ \A n \in Names :
                 WrittenSoFar(n) /\ wanted'[n] = wanted[n] /\ (At({"fill"}, n) => At({"fill"}, n)')
                 => WrittenSoFar(n)'
<1>1. /\ mem.scripts \in Seq(Script) /\ DOMAIN mem.scripts = 1 .. Len(mem.scripts)
      /\ Len(mem.scripts) \in Nat /\ Len(mem'.scripts) \in Nat
      /\ DOMAIN mem'.scripts = 1 .. Len(mem'.scripts)
      /\ walk.out \in Seq(Script) /\ walk.size \in Nat /\ Len(walk.out) \in Nat
      /\ DOMAIN walk.out = 1 .. Len(walk.out)
    BY LenProperties DEF IInv, StoreTypeOK
<1>2. WalkInv'
    <2>1. SUFFICES ASSUME Walking
                   PROVE  /\ walk.lost => excuse
                          /\ "file" \notin shuffled =>
                                /\ Unique(Walked)' /\ "mem" \notin shuffled
                                /\ Len(walk.out) <= walk.size /\ walk.size <= Len(Walked')
                                /\ \A i \in DOMAIN walk.out : walk.out[i].name = Walked'[i].name
        BY DEF WalkInv
    <2>2. WalkInv
        BY DEF IInv
    <2>3. CASE walk.lost
        <3>1. Walked' = walk.from /\ Walked = walk.from
            BY <2>3 DEF Walked
        <3> HIDE DEF Walked
        <3> QED BY <2>1, <2>2, <3>1 DEF WalkInv, Unique
    <2>4. CASE ~walk.lost
        <3>1. Walked' = mem'.scripts /\ Walked = mem.scripts
            BY <2>4 DEF Walked
        <3>2. "file" \notin shuffled =>
                  /\ Unique(mem.scripts) /\ "mem" \notin shuffled
                  /\ Len(walk.out) <= walk.size /\ walk.size <= Len(mem.scripts)
                  /\ \A i \in DOMAIN walk.out : walk.out[i].name = mem.scripts[i].name
            BY <2>1, <2>2, <3>1 DEF WalkInv
        <3>3. "file" \notin shuffled =>
                  /\ walk.size <= Len(mem'.scripts)
                  /\ \A i \in DOMAIN walk.out : walk.out[i].name = mem'.scripts[i].name
            BY <1>1, <3>2
        <3>4. Unique(Walked)' <=> Unique(mem'.scripts)
            BY <3>1 DEF Unique
        <3> HIDE DEF Walked
        <3> QED BY <2>1, <2>4, <3>1, <3>2, <3>3, <3>4
    <2> QED BY <2>3, <2>4
<1>3. ASSUME NEW n \in Names, WrittenSoFar(n), wanted'[n] = wanted[n],
             At({"fill"}, n) => At({"fill"}, n)'
      PROVE  WrittenSoFar(n)'
    <2>1. PICK i \in DOMAIN mem.scripts :
              /\ i <= walk.size /\ mem.scripts[i].name = n
              /\ i <= Len(walk.out) =>
                    walk.out[i].content = wanted[n] \/ (walk.out[i].content = Hole /\ At({"fill"}, n))
        BY <1>3 DEF WrittenSoFar
    <2>2. i \in DOMAIN mem'.scripts /\ mem'.scripts[i].name = n
        BY <1>1, <2>1
    <2> QED BY <1>3, <2>1, <2>2 DEF WrittenSoFar
<1> QED BY <1>2, <1>3

\* add_script takes the content of the script away.
LEMMA AddFindIInv ==
    ASSUME IInv, NEW t \in Threads, AddFind(t)
    PROVE  IInv'
<1> DEFINE n == req[t].name
           k == IndexOf(n)
           s == mem.scripts
           r == mem'.scripts
<1>0. /\ pc'[t] = "fill" /\ \A u \in Threads : u # t => pc'[u] = pc[u]
      /\ pc' \in [Threads -> Labels] /\ pc[t] = "find"
      /\ at' = [at EXCEPT ![t] = k] /\ edited' = edited \cup Users(t)
      /\ mem' = IF at'[t] > 0 THEN [mem EXCEPT !.scripts[at'[t]].content = Hole] ELSE mem
      /\ UNCHANGED <<file, fileio, memio, req, uses, walk, wanted, shuffled, excuse>>
    BY OthersStay DEF AddFind, Labels
<1>1. /\ \A u \in Threads : u # t => pc[u] \notin {"find", "fill", "reading"}
      /\ s \in Seq(Script) /\ n \in Names
      /\ mem \in [loaded : BOOLEAN, scripts : Seq(Script)]
      /\ ~excuse => mem.loaded
    BY <1>0, OneWriter DEF IInv, LoadedInv, StoreTypeOK, Request, Past
<1>2. /\ k = 0 \/ k \in DOMAIN s
      /\ k = 0 => \A i \in DOMAIN s : s[i].name # n
      /\ k # 0 => s[k].name = n
      /\ k \in Nat
    BY <1>1, IndexFinds
<1>3. at' \in [Threads -> Nat] /\ at'[t] = k /\ \A u \in Threads : u # t => at'[u] = at[u]
    BY <1>0, <1>2 DEF IInv, StoreTypeOK
<1> HIDE DEF k
<1>4. /\ mem' \in [loaded : BOOLEAN, scripts : Seq(Script)] /\ mem'.loaded = mem.loaded
      /\ k = 0 => r = s
      /\ k # 0 => /\ DOMAIN r = DOMAIN s
                  /\ \A j \in DOMAIN s : r[j] = IF j = k THEN [name |-> n, content |-> Hole] ELSE s[j]
    <2>1. CASE k = 0
        BY <1>0, <1>1, <1>3, <2>1
    <2>2. CASE k # 0
        <3> DEFINE x == [name |-> n, content |-> Hole]
        <3>1. s[k] \in Script /\ x \in Script
            <4>1. x \in Script
                BY <1>1 DEF Script
            <4>2. k \in 1 .. Len(s)
                BY <1>1, <1>2, <2>2, LenProperties
            <4> HIDE DEF x, s
            <4> QED BY <1>1, <4>1, <4>2, ElementOfSeq
        <3>2. [s[k] EXCEPT !.content = Hole] = x
            BY <1>2, <2>2, <3>1 DEF Script
        <3>3. mem' = [mem EXCEPT !.scripts = [s EXCEPT ![k] = x]]
            BY <1>0, <1>2, <1>3, <2>2, <3>2
        <3>4. r = [s EXCEPT ![k] = x] /\ mem'.loaded = mem.loaded
            BY <1>1, <3>3
        <3>5. /\ r \in Seq(Script) /\ DOMAIN r = DOMAIN s
              /\ \A j \in DOMAIN s : r[j] = IF j = k THEN x ELSE s[j]
            <4> HIDE DEF x, r, s
            <4> QED BY <1>1, <1>2, <2>2, <3>1, <3>4, ExceptSeq
        <3>6. mem' \in [loaded : BOOLEAN, scripts : Seq(Script)]
            BY <1>1, <3>3, <3>4, <3>5
        <3> QED BY <2>2, <3>4, <3>5, <3>6
    <2> QED BY <2>1, <2>2
<1>5. /\ r \in Seq(Script) /\ (Unique(s) => Unique(r))
      /\ k # 0 => Has(r, n, Hole)
      /\ \A m, d : m # n => (Has(s, m, d) <=> Has(r, m, d))
    <2>1. CASE k = 0
        BY <1>1, <1>4, <2>1
    <2>2. CASE k # 0
        <3> HIDE DEF r, s
        <3> QED BY <1>1, <1>2, <1>4, <2>2, ChangeKeeps DEF r
    <2> QED BY <2>1, <2>2
<1>6. /\ DOMAIN r = DOMAIN s /\ Len(r) = Len(s)
      /\ \A i \in DOMAIN s : r[i].name = s[i].name
    <2>1. DOMAIN r = DOMAIN s /\ \A i \in DOMAIN s : r[i].name = s[i].name
        BY <1>2, <1>4
    <2>2. /\ Len(s) \in Nat /\ Len(r) \in Nat
          /\ DOMAIN s = 1 .. Len(s) /\ DOMAIN r = 1 .. Len(r)
        BY <1>1, <1>5, LenProperties
    <2> HIDE DEF r, s
    <2> QED BY <2>1, <2>2
<1>7. StoreTypeOK'
    BY <1>0, <1>3, <1>4 DEF IInv, StoreTypeOK, Labels, Users
<1>8. OpInv' /\ LocksInv'
    BY <1>0 DEF IInv, OpInv, LocksInv
<1>9. LoadedInv' /\ ColdInv' /\ UnloadedInv' /\ ShuffledInv'
    <2>1. ~mem.loaded => r = <<>>
        <3>1. ~mem.loaded => s = <<>>
            BY DEF IInv, LoadedInv
        <3>2. ~mem.loaded => k = 0
            BY <1>2, <3>1
        <3> QED BY <1>4, <3>1, <3>2
    <2>2. LoadedInv'
        BY <1>0, <1>4, <2>1 DEF IInv, LoadedInv, Past
    <2>3. ColdInv'
        BY <1>0, <1>4 DEF IInv, ColdInv, Past
    <2> QED BY <1>0, <1>4, <2>2, <2>3 DEF IInv, UnloadedInv, ShuffledInv
<1>10. UniqueInv'
    BY <1>0, <1>5 DEF IInv, UniqueInv
<1>11. \A m : /\ ~At({"fill"}, m)
              /\ At({"fill"}, m)' <=> m = n
              /\ At({"save"}, m)' <=> At({"save"}, m)
              /\ At({"save", "dump"}, m)' <=> At({"save", "dump"}, m)
    BY <1>0, <1>1 DEF At
<1>12. ~excuse /\ wanted[n] # None => k # 0
    <2>1. ~excuse /\ wanted[n] # None => Has(s, n, wanted[n])
        BY <1>1, <1>11 DEF IInv, MemInv
    <2> QED BY <1>2, <2>1 DEF Has
<1>13. FillInv'
    <2>1. /\ k = 0 => \A i \in DOMAIN r : r[i].name # n
          /\ k \in DOMAIN r => r[k].name = n
          /\ k # 0 => k \in DOMAIN r
        BY <1>2, <1>4
    <2>2. \A u \in Threads : pc'[u] = "fill" => u = t
        BY <1>0, <1>1
    <2>3. UNCHANGED <<req, wanted, excuse>> /\ at'[t] = k
        BY <1>0, <1>3
    <2> HIDE DEF r
    <2> QED BY <1>5, <1>12, <2>1, <2>2, <2>3 DEF FillInv, r
<1>14. HoleInv'
    <2>1. ~excuse => \A i \in DOMAIN s : s[i].content # Hole
        BY <1>0, <1>1 DEF IInv, HoleInv
    <2>2. ~excuse => \A i \in DOMAIN r : r[i].content = Hole => i = k
        BY <1>4, <2>1
    <2> QED BY <1>0, <1>1, <1>3, <1>4, <2>2 DEF HoleInv
<1>15. MemInv'
    <2>1. ~excuse => \A m \in Names : wanted[m] # None /\ m # n => Has(r, m, wanted[m])
        BY <1>1, <1>5, <1>11 DEF IInv, MemInv
    <2> HIDE DEF r
    <2> QED BY <1>0, <1>11, <2>1 DEF MemInv, r
<1>16. Walking' <=> Walking
    BY <1>0 DEF Walking
<1>17. Len(s) <= Len(r)
    BY <1>1, <1>6, LenProperties
<1>18. WalkInv' /\ WalkedInv'
    <2>1. /\ WalkInv'
          /\ \A m \in Names :
                WrittenSoFar(m) /\ wanted'[m] = wanted[m] /\ (At({"fill"}, m) => At({"fill"}, m)')
                => WrittenSoFar(m)'
        BY <1>0, <1>5, <1>6, <1>16, <1>17, WalkStays
    <2> HIDE DEF n, r, s
    <2> QED BY <1>0, <1>11, <1>16, <2>1 DEF IInv, WalkedInv
<1>19. FileInv'
    BY <1>0, <1>11, <1>16 DEF IInv, FileInv
<1>20. ExecInv'
    <2>1. \A u \in Threads : u # t /\ pc[u] = "exec" /\ req[u].name = n => u \in edited'
        BY <1>0 DEF Users
    <2>2. ~excuse => \A u \in Threads : pc'[u] = "exec" /\ u \notin edited' =>
              Has(r, req[u].name, uses[u])
        BY <1>0, <1>5, <2>1 DEF IInv, ExecInv
    <2>3. \A u, v \in Threads :
              pc'[u] = "fill" /\ pc'[v] = "exec" /\ req[u].name = req[v].name => v \in edited'
        BY <1>0, <1>1, <2>1
    <2> HIDE DEF r
    <2> QED BY <1>0, <2>2, <2>3 DEF ExecInv, r
<1> QED BY <1>7, <1>8, <1>9, <1>10, <1>13, <1>14, <1>15, <1>18, <1>19, <1>20 DEF IInv

\* add_script sets the content, or appends the script.
LEMMA AddFillIInv ==
    ASSUME IInv, NEW t \in Threads, AddFill(t)
    PROVE  IInv'
<1> DEFINE n == req[t].name
           c == req[t].content
           k == at[t]
           s == mem.scripts
           r == mem'.scripts
           x == [name |-> n, content |-> c]
<1>0. /\ pc'[t] = "save" /\ \A u \in Threads : u # t => pc'[u] = pc[u]
      /\ pc' \in [Threads -> Labels] /\ pc[t] = "fill"
      /\ mem' = [mem EXCEPT !.scripts = Filled(t)]
      /\ wanted' = [wanted EXCEPT ![n] = c]
      /\ memio' = [memio EXCEPT !.excl = None]
      /\ at' = [at EXCEPT ![t] = 0]
      /\ UNCHANGED <<file, fileio, req, uses, walk, edited, shuffled, excuse>>
    BY OthersStay DEF AddFill, Labels
<1>1. /\ \A u \in Threads : u # t => pc[u] \notin {"find", "fill", "reading"}
      /\ s \in Seq(Script) /\ n \in Names
      /\ mem \in [loaded : BOOLEAN, scripts : Seq(Script)]
      /\ k \in Nat
      /\ ~excuse => mem.loaded
      /\ ~mem.loaded => s = <<>>
    BY <1>0, OneWriter DEF IInv, LoadedInv, StoreTypeOK, Request, Past
<1>2. c \in Contents /\ c # Hole /\ c # None /\ x \in Script
    <2>1. req[t] \in Request /\ req[t].op = "add_script"
        BY <1>0 DEF IInv, OpInv, StoreTypeOK
    <2> QED BY <2>1, StoreAssumption DEF Request, Script
<1>3. /\ k = 0 => \A i \in DOMAIN s : s[i].name # n
      /\ k \in DOMAIN s => s[k].name = n
      /\ ~excuse /\ k # 0 => k \in DOMAIN s
    BY <1>0 DEF IInv, FillInv
<1>4. /\ memio' \in [excl : Threads \cup {None}, shared : SUBSET Threads, leaked : BOOLEAN]
      /\ memio'.excl = None /\ memio'.shared = memio.shared
      /\ at' \in [Threads -> Nat] /\ \A u \in Threads : u # t => at'[u] = at[u]
      /\ wanted' \in [Names -> Contents \cup {None}] /\ wanted'[n] = c
      /\ \A m \in Names : m # n => wanted'[m] = wanted[m]
    BY <1>0, <1>1, <1>2 DEF IInv, StoreTypeOK
<1>5. /\ k = 0 /\ mem.loaded => Filled(t) = Append(s, x)
      /\ k = 0 /\ ~mem.loaded => Filled(t) = <<>>
      /\ k # 0 => Filled(t) = [i \in DOMAIN s |-> IF i = k THEN x ELSE s[i]]
    BY DEF Filled
<1> HIDE DEF x
<1>6. /\ Filled(t) \in Seq(Script) /\ (Unique(s) => Unique(Filled(t)))
      /\ Len(s) <= Len(Filled(t))
      /\ \A i \in DOMAIN s : Filled(t)[i].name = s[i].name
      /\ mem.loaded /\ (k = 0 \/ k \in DOMAIN s) => Has(Filled(t), n, c)
      /\ \A m, d : m # n => (Has(s, m, d) => Has(Filled(t), m, d))
      /\ \A j \in DOMAIN Filled(t) : \/ Filled(t)[j].content = c
                                     \/ j \in DOMAIN s /\ j # k /\ Filled(t)[j] = s[j]
    <2>0. x.name = n /\ x.content = c /\ DOMAIN s = 1 .. Len(s) /\ Len(s) \in Nat
        BY <1>1, LenProperties DEF x
    <2>1. CASE k = 0 /\ mem.loaded
        <3>1. /\ Append(s, x) \in Seq(Script) /\ (Unique(s) => Unique(Append(s, x)))
              /\ Has(Append(s, x), n, c) /\ Len(Append(s, x)) = Len(s) + 1
              /\ \A m, d : Has(s, m, d) => Has(Append(s, x), m, d)
              /\ \A j \in DOMAIN Append(s, x) :
                    Append(s, x)[j] = x \/ (j \in DOMAIN s /\ Append(s, x)[j] = s[j])
            <4> HIDE DEF s
            <4> QED BY <1>1, <1>2, <1>3, <2>0, <2>1, AppendKeeps
        <3>2. \A j \in DOMAIN s : j # 0 /\ Append(s, x)[j] = s[j]
            <4> HIDE DEF s, n, c, k
            <4> QED BY <1>1, <1>2, <2>0, AppendProperties
        <3>3. Len(s) <= Len(Append(s, x))
            BY <2>0, <3>1
        <3> HIDE DEF s, n, c
        <3> QED BY <1>5, <2>0, <2>1, <3>1, <3>2, <3>3
    <2>2. CASE k \in DOMAIN s
        <3>1. k \in 1 .. Len(s) /\ k # 0
            BY <2>0, <2>2
        <3>2. Filled(t) = [s EXCEPT ![k] = x]
            BY <1>5, <3>1
        <3>3. /\ Filled(t) \in Seq(Script) /\ DOMAIN Filled(t) = DOMAIN s
              /\ Len(Filled(t)) = Len(s)
              /\ \A j \in DOMAIN s : Filled(t)[j] = IF j = k THEN x ELSE s[j]
            <4> HIDE DEF s
            <4> QED BY <1>1, <1>2, <2>2, <3>1, <3>2, ExceptSeq
        <3>4. x = [name |-> s[k].name, content |-> c]
            BY <1>3, <2>2 DEF x
        <3>5. /\ Unique(s) => Unique(Filled(t))
              /\ Has(Filled(t), s[k].name, c)
              /\ \A m, d : m # s[k].name => (Has(s, m, d) <=> Has(Filled(t), m, d))
            <4>1. /\ Filled(t) \in Seq(Script) /\ DOMAIN Filled(t) = DOMAIN s
                  /\ \A j \in DOMAIN s :
                        Filled(t)[j] = IF j = k THEN [name |-> s[k].name, content |-> c] ELSE s[j]
                BY <3>3, <3>4
            <4>2. s \in Seq(Script) /\ k \in DOMAIN s /\ c \in Contents \cup {Hole}
                BY <1>1, <1>2, <2>2
            <4> HIDE DEF s, c, k
            <4> QED BY <4>1, <4>2, ChangeKeeps
        <3>6. \A j \in DOMAIN s : Filled(t)[j].name = s[j].name
            <4> HIDE DEF s, c, n
            <4> QED BY <1>3, <2>0, <2>2, <3>3
        <3>7. Len(s) <= Len(Filled(t))
            BY <2>0, <3>3
        <3> HIDE DEF s, c, n
        <3> QED BY <1>3, <2>0, <2>2, <3>3, <3>5, <3>6, <3>7
    <2>3. CASE k \notin DOMAIN s /\ ~(k = 0 /\ mem.loaded)
        <3>1. Filled(t) = s
            <4>1. s = [i \in DOMAIN s |-> s[i]]
                BY <1>1
            <4>2. CASE k = 0
                BY <1>1, <1>5, <2>3, <4>2
            <4>3. CASE k # 0
                <5>1. Filled(t) = [i \in DOMAIN s |-> s[i]]
                    BY <1>5, <2>3, <4>3
                <5> QED BY <4>1, <5>1
            <4> QED BY <4>2, <4>3
        <3>2. Len(s) <= Len(s)
            BY <2>0
        <3> HIDE DEF s, c, n
        <3> QED BY <1>1, <2>3, <3>1, <3>2
    <2> QED BY <2>1, <2>2, <2>3
<1>7. /\ mem' \in [loaded : BOOLEAN, scripts : Seq(Script)] /\ mem'.loaded = mem.loaded
      /\ r = Filled(t)
    BY <1>0, <1>1, <1>6
<1>8. StoreTypeOK'
    BY <1>0, <1>4, <1>7 DEF IInv, StoreTypeOK, Labels
<1>9. OpInv'
    BY <1>0 DEF IInv, OpInv
<1>10. LoadedInv' /\ ColdInv' /\ UnloadedInv' /\ ShuffledInv'
    <2>1. ~mem.loaded => r = <<>>
        <3>1. ~mem.loaded /\ k # 0 => Filled(t) = <<>>
            BY <1>1, <1>5
        <3> QED BY <1>5, <1>7, <3>1
    <2>2. LoadedInv'
        BY <1>0, <1>7, <2>1 DEF IInv, LoadedInv, Past
    <2>3. ColdInv'
        BY <1>0, <1>7 DEF IInv, ColdInv, Past
    <2>4. UnloadedInv'
        BY <1>0, <1>1, <1>7 DEF UnloadedInv
    <2> QED BY <1>0, <1>7, <2>2, <2>3, <2>4 DEF IInv, ShuffledInv
<1>11. LocksInv'
    <2>1. \A u \in Threads : pc'[u] \notin {"find", "fill"} /\ u # None
        BY <1>0, <1>1, StoreAssumption
    <2>2. \A u \in Threads : u \in memio'.shared <=> pc'[u] = "reading"
        BY <1>0, <1>4 DEF IInv, LocksInv
    <2>3. \A u \in Threads : fileio' = u <=> pc'[u] \in {"recheck", "loading", "dump"}
        BY <1>0 DEF IInv, LocksInv
    <2> QED BY <1>4, <2>1, <2>2, <2>3 DEF LocksInv
<1>12. UniqueInv'
    BY <1>0, <1>6, <1>7 DEF IInv, UniqueInv
<1>13. FillInv'
    BY <1>0, <1>1 DEF FillInv
<1>14. HoleInv'
    <2>1. ~excuse => \A i \in DOMAIN s : s[i].content = Hole => i = k
        BY <1>0, <1>1 DEF IInv, HoleInv
    <2>2. ~excuse => \A i \in DOMAIN r : r[i].content # Hole
        BY <1>2, <1>6, <1>7, <2>1
    <2> QED BY <1>0, <1>1, <1>7, <2>2 DEF HoleInv
<1>15. \A m : /\ At({"fill"}, m) <=> m = n
              /\ ~At({"fill"}, m)'
              /\ At({"save"}, m)' <=> (m = n \/ At({"save"}, m))
              /\ At({"save", "dump"}, m)' <=> (m = n \/ At({"save", "dump"}, m))
    BY <1>0, <1>1 DEF At
<1>16. MemInv'
    <2>1. ~excuse => \A m \in Names : wanted[m] # None /\ m # n => Has(s, m, wanted[m])
        BY <1>1, <1>15 DEF IInv, MemInv
    <2>2. ~excuse => \A m \in Names : wanted'[m] # None => Has(r, m, wanted'[m])
        BY <1>1, <1>3, <1>4, <1>6, <1>7, <2>1
    <2> HIDE DEF r
    <2> QED BY <1>0, <2>2 DEF MemInv, r
<1>17. Walking' <=> Walking
    BY <1>0 DEF Walking
<1>18. WalkInv' /\ WalkedInv'
    <2>1. /\ WalkInv'
          /\ \A m \in Names :
                WrittenSoFar(m) /\ wanted'[m] = wanted[m] /\ (At({"fill"}, m) => At({"fill"}, m)')
                => WrittenSoFar(m)'
        <3> HIDE DEF n, c, k
        <3> QED BY <1>0, <1>6, <1>7, <1>17, WalkStays
    <2> HIDE DEF n, r, s
    <2> QED BY <1>0, <1>4, <1>15, <1>17, <2>1 DEF IInv, WalkedInv
<1>19. FileInv'
    BY <1>0, <1>4, <1>15, <1>17 DEF IInv, FileInv
<1>20. ExecInv'
    <2>1. \A u \in Threads : pc[u] = "exec" /\ req[u].name = n => u \in edited
        BY <1>0 DEF IInv, ExecInv
    <2>2. ~excuse => \A u \in Threads : pc'[u] = "exec" /\ u \notin edited =>
              Has(r, req[u].name, uses[u])
        BY <1>0, <1>6, <1>7, <2>1 DEF IInv, ExecInv
    <2>3. \A u \in Threads : pc'[u] # "fill"
        BY <1>0, <1>1
    <2> HIDE DEF r
    <2> QED BY <1>0, <2>2, <2>3 DEF ExecInv, r
<1> QED BY <1>8, <1>9, <1>10, <1>11, <1>12, <1>13, <1>14, <1>16, <1>18, <1>19, <1>20 DEF IInv

\* Saving begins: everything that was added, and is not waiting to be saved
\* itself, is in the array that is written.
LEMMA SaveBeginIInv ==
    ASSUME IInv, NEW t \in Threads, SaveBegin(t)
    PROVE  IInv'
<1> DEFINE s == mem.scripts
<1>0. /\ pc'[t] = "dump" /\ \A u \in Threads : u # t => pc'[u] = pc[u]
      /\ pc' \in [Threads -> Labels] /\ pc[t] = "save" /\ mem.loaded /\ fileio = None
      /\ file' = [state |-> "broken", scripts |-> <<>>] /\ fileio' = t
      /\ walk' = [size |-> Len(s), out |-> <<>>, lost |-> FALSE, from |-> <<>>]
      /\ shuffled' = IF "mem" \in shuffled THEN {"mem", "file"} ELSE {}
      /\ UNCHANGED <<mem, memio, req, at, uses, edited, wanted, excuse>>
    BY OthersStay DEF SaveBegin, Labels, Broken, NoWalk
<1>1. /\ \A u \in Threads : pc[u] \notin {"recheck", "loading", "dump"}
      /\ \A u \in Threads : pc'[u] \notin {"recheck", "loading"}
      /\ Walking'
    BY <1>0, OneOwner DEF Walking
<1>2. s \in Seq(Script) /\ Len(s) \in Nat /\ DOMAIN s = 1 .. Len(s)
    BY LenProperties DEF IInv, StoreTypeOK
<1>3. StoreTypeOK'
    <2>1. <<>> \in Seq(Script)
        BY EmptySeq
    <2>2. file' \in [state : {"ok", "broken"}, scripts : Seq(Script)]
        BY <1>0, <2>1
    <2>3. walk' \in [size : Nat, out : Seq(Script), lost : BOOLEAN, from : Seq(Script)]
        BY <1>0, <1>2, <2>1
    <2> QED BY <1>0, <2>2, <2>3 DEF IInv, StoreTypeOK, Labels
<1>4. OpInv' /\ ExecInv'
    BY <1>0 DEF IInv, OpInv, ExecInv
<1>5. LocksInv'
    <2>1. \A u \in Threads : fileio' = u <=> pc'[u] \in {"recheck", "loading", "dump"}
        BY <1>0, <1>1
    <2> QED BY <1>0, <2>1 DEF IInv, LocksInv
<1>6. LoadedInv' /\ ColdInv' /\ HoleInv' /\ UnloadedInv'
    <2>1. LoadedInv' /\ ColdInv'
        BY <1>0, <1>1 DEF IInv, LoadedInv, ColdInv
    <2> QED BY <1>0, <2>1 DEF IInv, HoleInv, UnloadedInv
<1>7. UniqueInv' /\ ShuffledInv'
    BY <1>0 DEF IInv, UniqueInv, Unique, ShuffledInv
<1>8. FillInv'
    BY <1>0 DEF IInv, FillInv
<1>9. \A n : At({"fill"}, n)' <=> At({"fill"}, n)
    BY <1>0 DEF At
<1>10. MemInv'
    BY <1>0, <1>9 DEF IInv, MemInv
<1>11. WalkInv'
    <2>1. Walked' = s
        BY <1>0 DEF Walked
    <2>2. "file" \notin shuffled' => Unique(s) /\ "mem" \notin shuffled'
        BY <1>0 DEF IInv, UniqueInv
    <2>3. Unique(Walked)' <=> Unique(s)
        BY <2>1 DEF Unique
    <2>4. walk'.size = Len(s) /\ walk'.out = <<>> /\ ~walk'.lost /\ Len(walk'.out) = 0
        BY <1>0
    <2> HIDE DEF Walked
    <2> QED BY <1>2, <2>1, <2>2, <2>3, <2>4 DEF WalkInv
<1>12. WalkedInv'
    <2>1. ASSUME ~excuse, NEW n \in Names, wanted[n] # None
          PROVE  WrittenSoFar(n)'
        <3>1. \E d : Has(s, n, d)
            <4>1. CASE At({"fill"}, n)
                BY <2>1, <4>1 DEF IInv, FillInv, At
            <4>2. CASE ~At({"fill"}, n)
                BY <1>0, <2>1, <4>2 DEF IInv, MemInv
            <4> QED BY <4>1, <4>2
        <3>2. PICK i \in DOMAIN s : s[i].name = n
            BY <3>1 DEF Has
        <3>3. i <= Len(s) /\ i \in Nat /\ ~(i <= 0)
            BY <1>2
        <3>4. walk'.size = Len(s) /\ Len(walk'.out) = 0 /\ mem' = mem
            BY <1>0
        <3> QED BY <3>2, <3>3, <3>4 DEF WrittenSoFar
    <2> QED BY <1>0, <2>1 DEF WalkedInv
<1>13. FileInv'
    BY <1>1 DEF FileInv
<1> QED BY <1>3, <1>4, <1>5, <1>6, <1>7, <1>8, <1>10, <1>11, <1>12, <1>13 DEF IInv

\* Saving without an array: another request has lost it.
LEMMA SaveNothingIInv ==
    ASSUME IInv, NEW t \in Threads, SaveNothing(t)
    PROVE  IInv'
<1>0. /\ pc'[t] = "idle" /\ \A u \in Threads : u # t => pc'[u] = pc[u] /\ req'[u] = req[u]
      /\ pc' \in [Threads -> Labels] /\ req' \in [Threads -> Request]
      /\ pc[t] = "save" /\ ~mem.loaded /\ fileio = None
      /\ file' = [state |-> "broken", scripts |-> <<>>] /\ shuffled' = {}
      /\ UNCHANGED <<mem, fileio, memio, at, uses, walk, edited, wanted, excuse>>
    BY Returned DEF SaveNothing, Broken
<1>1. excuse
    BY <1>0 DEF IInv, LoadedInv, Past
<1>2. /\ \A u \in Threads : pc[u] \notin {"recheck", "loading", "dump"}
      /\ \A u \in Threads : pc'[u] \notin {"recheck", "loading", "dump"}
      /\ ~Walking'
    BY <1>0, OneOwner DEF Walking
<1>3. StoreTypeOK'
    <2>1. file' \in [state : {"ok", "broken"}, scripts : Seq(Script)]
        BY <1>0, EmptySeq
    <2> QED BY <1>0, <2>1 DEF IInv, StoreTypeOK, Labels
<1>4. OpInv' /\ LocksInv' /\ ExecInv'
    <2>1. OpInv' /\ ExecInv'
        BY <1>0, <1>1 DEF IInv, OpInv, ExecInv
    <2>2. LocksInv'
        BY <1>0, <1>2 DEF IInv, LocksInv
    <2> QED BY <2>1, <2>2
<1>5. LoadedInv' /\ ColdInv' /\ UniqueInv' /\ ShuffledInv'
    BY <1>0, <1>1, <1>2 DEF IInv, LoadedInv, ColdInv, UniqueInv, Unique, ShuffledInv
<1>6. FillInv'
    BY <1>0, <1>1 DEF IInv, FillInv
<1>7. HoleInv' /\ UnloadedInv' /\ MemInv' /\ WalkInv' /\ WalkedInv' /\ FileInv'
    BY <1>0, <1>1, <1>2 DEF HoleInv, UnloadedInv, MemInv, WalkInv, WalkedInv, FileInv
<1> QED BY <1>3, <1>4, <1>5, <1>6, <1>7 DEF IInv

\* One more script is written.
LEMMA SaveScriptIInv ==
    ASSUME IInv, NEW t \in Threads, SaveScript(t)
    PROVE  IInv'
<1> DEFINE s == mem.scripts
           i == Position
           o == walk.out
<1>0. /\ pc[t] = "dump" /\ i <= walk.size /\ i \in DOMAIN Walked
      /\ UNCHANGED <<mem, file, fileio, memio, pc, req, at, uses, edited, wanted, shuffled, excuse>>
    BY DEF SaveScript, MoreToWrite
<1>1. PICK c \in Written(Walked[i]) :
          walk' = [walk EXCEPT !.out = Append(@, [name |-> Walked[i].name, content |-> c])]
    BY DEF SaveScript
<1>2. /\ walk \in [size : Nat, out : Seq(Script), lost : BOOLEAN, from : Seq(Script)]
      /\ s \in Seq(Script) /\ Walked \in Seq(Script) /\ Walked[i] \in Script
      /\ o \in Seq(Script) /\ Len(o) \in Nat /\ DOMAIN o = 1 .. Len(o) /\ i = Len(o) + 1
    <2>1. /\ walk \in [size : Nat, out : Seq(Script), lost : BOOLEAN, from : Seq(Script)]
          /\ s \in Seq(Script)
        BY DEF IInv, StoreTypeOK
    <2>2. Walked \in Seq(Script)
        BY <2>1 DEF Walked
    <2>3. Walked[i] \in Script
        <3> HIDE DEF Walked, i
        <3> QED BY <1>0, <2>2, LenProperties, ElementOfSeq
    <2>4. o \in Seq(Script) /\ Len(o) \in Nat /\ DOMAIN o = 1 .. Len(o)
        BY <2>1, LenProperties
    <2> QED BY <2>1, <2>2, <2>3, <2>4 DEF Position
<1> DEFINE x == [name |-> Walked[i].name, content |-> c]
<1>3. /\ x \in Script /\ x.name = Walked[i].name /\ x.content = c
      /\ ~walk.lost => c = s[i].content
    <2>1. c \in Contents \cup {Hole}
        BY <1>1, <1>2 DEF Written, Script
    <2> QED BY <1>1, <1>2, <2>1 DEF Script, Written, Walked
<1> HIDE DEF x
<1>4. /\ Append(o, x) \in Seq(Script) /\ Len(Append(o, x)) = Len(o) + 1
      /\ DOMAIN Append(o, x) = 1 .. Len(o) + 1
      /\ \A j \in 1 .. Len(o) : Append(o, x)[j] = o[j]
      /\ Append(o, x)[i] = x
    <2> HIDE DEF o, i
    <2> QED BY <1>2, <1>3, AppendProperties
<1>5. /\ walk' \in [size : Nat, out : Seq(Script), lost : BOOLEAN, from : Seq(Script)]
      /\ walk'.out = Append(o, x) /\ walk'.size = walk.size
      /\ walk'.lost = walk.lost /\ walk'.from = walk.from
    BY <1>1, <1>2, <1>4 DEF x
<1>6. Control'
    <2>1. StoreTypeOK'
        BY <1>0, <1>5 DEF IInv, StoreTypeOK
    <2>2. OpInv' /\ LocksInv' /\ ExecInv'
        BY <1>0 DEF IInv, OpInv, LocksInv, ExecInv
    <2> QED BY <2>1, <2>2 DEF Control
<1>7. /\ Walking /\ Walking'
      /\ \A locs, n : At(locs, n)' <=> At(locs, n)
    BY <1>0 DEF Walking, At
<1>8. LoadedInv' /\ ColdInv' /\ UniqueInv' /\ ShuffledInv' /\ FillInv' /\ HoleInv' /\ UnloadedInv'
    BY <1>0 DEF IInv, LoadedInv, ColdInv, UniqueInv, ShuffledInv, FillInv, HoleInv, UnloadedInv
<1>9. MemInv' /\ FileInv'
    BY <1>0, <1>7 DEF IInv, MemInv, FileInv
<1>10. WalkInv'
    <2>1. Walked' = Walked
        BY <1>0, <1>5 DEF Walked
    <2>2. Unique(Walked)' <=> Unique(Walked)
        BY <2>1 DEF Unique
    <2>3. WalkInv
        BY DEF IInv
    <2>4. ASSUME "file" \notin shuffled
          PROVE  \A j \in DOMAIN walk'.out : walk'.out[j].name = Walked[j].name
        <3>1. \A j \in 1 .. Len(o) : o[j].name = Walked[j].name
            BY <1>2, <1>7, <2>3, <2>4 DEF WalkInv
        <3>2. ASSUME NEW j \in 1 .. Len(o) + 1
              PROVE  Append(o, x)[j].name = Walked[j].name
            <4>1. j \in 1 .. Len(o) \/ j = i
                BY <1>2
            <4> HIDE DEF Walked, o, i
            <4> QED BY <1>3, <1>4, <3>1, <4>1
        <3> HIDE DEF Walked, o
        <3> QED BY <1>4, <1>5, <3>2
    <2>5. Len(walk'.out) <= walk.size
        BY <1>0, <1>2, <1>4, <1>5
    <2> HIDE DEF Walked, i, o
    <2> QED BY <1>0, <1>5, <1>7, <2>1, <2>2, <2>3, <2>4, <2>5 DEF WalkInv
<1>11. WalkedInv'
    <2>1. SUFFICES ASSUME ~excuse, "file" \notin shuffled, NEW n \in Names, wanted[n] # None,
                          ~At({"save"}, n)
                   PROVE  WrittenSoFar(n)'
        BY <1>0, <1>7 DEF WalkedInv
    <2>2. PICK j \in DOMAIN s :
              /\ j <= walk.size /\ s[j].name = n
              /\ j <= Len(o) => o[j].content = wanted[n] \/ (o[j].content = Hole /\ At({"fill"}, n))
        BY <1>7, <2>1 DEF IInv, WalkedInv, WrittenSoFar
    <2>3. j \in Nat /\ 1 <= j
        BY <1>2, <2>2, LenProperties
    <2>4. CASE j <= Len(o)
        <3>1. Append(o, x)[j] = o[j]
            BY <1>2, <1>4, <2>3, <2>4
        <3> HIDE DEF s, o
        <3> QED BY <1>0, <1>5, <1>7, <2>2, <2>4, <3>1 DEF WrittenSoFar, s
    <2>5. CASE j = i
        <3>1. Append(o, x)[j].content = s[j].content
            <4>1. ~walk.lost
                BY <1>7, <2>1, NoExcuse
            <4> HIDE DEF s, o, i
            <4> QED BY <1>3, <1>4, <2>5, <4>1
        <3>2. s[j].content = wanted[n] \/ (s[j].content = Hole /\ At({"fill"}, n))
            <4>1. Unique(s)
                BY <2>1, NoExcuse
            <4>2. mem.loaded
                BY <1>0 DEF IInv, LoadedInv
            <4>3. Has(s, n, wanted[n]) \/ (Has(s, n, Hole) /\ At({"fill"}, n))
                <5>1. CASE At({"fill"}, n)
                    BY <2>1, <5>1 DEF IInv, FillInv, At
                <5>2. CASE ~At({"fill"}, n)
                    BY <2>1, <4>2, <5>2 DEF IInv, MemInv
                <5> QED BY <5>1, <5>2
            <4> HIDE DEF s
            <4> QED BY <2>2, <4>1, <4>3 DEF Has, Unique
        <3> HIDE DEF s, o, i
        <3> QED BY <1>0, <1>5, <1>7, <2>2, <3>1, <3>2 DEF WrittenSoFar, s
    <2>6. CASE j > i
        <3>1. ~(j <= Len(walk'.out))
            BY <1>2, <1>4, <1>5, <2>3, <2>6
        <3> HIDE DEF s, o, i
        <3> QED BY <1>0, <1>5, <1>7, <2>2, <3>1 DEF WrittenSoFar, s
    <2>7. j <= Len(o) \/ j = i \/ j > i
        BY <1>2, <2>3
    <2> QED BY <2>4, <2>5, <2>6, <2>7
<1> QED BY <1>6, <1>8, <1>9, <1>10, <1>11, TogetherIInv DEF Data


\* The end of a save: the thread gives the file lock back and the array stays.
LEMMA SaveDone ==
    ASSUME IInv, NEW t \in Threads, pc[t] = "dump", Return(t), walk' = NoWalk, fileio' = None,
           file' \in [state : {"ok", "broken"}, scripts : Seq(Script)],
           "file" \notin shuffled => Unique(file'.scripts),
           UNCHANGED <<mem, memio, at, uses, edited, wanted, shuffled, excuse>>
    PROVE  /\ FileInv' => IInv'
           /\ ~Walking'
           /\ \A n : /\ At({"fill"}, n)' <=> At({"fill"}, n)
                     /\ At({"save"}, n)' <=> At({"save"}, n)
<1>0. /\ pc'[t] = "idle" /\ \A u \in Threads : u # t => pc'[u] = pc[u] /\ req'[u] = req[u]
      /\ pc' \in [Threads -> Labels] /\ req' \in [Threads -> Request]
    BY Returned
<1>1. /\ \A u \in Threads : u # t => pc[u] \notin {"recheck", "loading", "dump"}
      /\ \A u \in Threads : pc'[u] \notin {"recheck", "loading", "dump"}
      /\ ~Walking'
      /\ mem.loaded
    <2>1. \A u \in Threads : u # t => pc[u] \notin {"recheck", "loading", "dump"}
        BY OneOwner
    <2>2. mem.loaded
        BY DEF IInv, LoadedInv
    <2> QED BY <1>0, <2>1, <2>2 DEF Walking
<1>2. \A n : /\ At({"fill"}, n)' <=> At({"fill"}, n)
             /\ At({"save"}, n)' <=> At({"save"}, n)
    BY <1>0 DEF At
<1>3. StoreTypeOK'
    BY <1>0, NoWalkIs DEF IInv, StoreTypeOK, Labels
<1>4. OpInv' /\ ExecInv'
    BY <1>0 DEF IInv, OpInv, ExecInv
<1>5. LocksInv'
    <2>1. \A u \in Threads : fileio' = u <=> pc'[u] \in {"recheck", "loading", "dump"}
        BY <1>1, StoreAssumption
    <2> QED BY <1>0, <2>1 DEF IInv, LocksInv
<1>6. LoadedInv' /\ ColdInv' /\ ShuffledInv' /\ UnloadedInv'
    BY <1>0, <1>1 DEF IInv, LoadedInv, ColdInv, ShuffledInv, UnloadedInv, Past
<1>7. UniqueInv'
    BY DEF IInv, UniqueInv
<1>8. FillInv' /\ HoleInv'
    BY <1>0, <1>1 DEF IInv, FillInv, HoleInv
<1>9. MemInv'
    BY <1>2 DEF IInv, MemInv
<1>10. WalkInv' /\ WalkedInv'
    BY <1>1 DEF WalkInv, WalkedInv
<1> QED BY <1>1, <1>2, <1>3, <1>4, <1>5, <1>6, <1>7, <1>8, <1>9, <1>10 DEF IInv

\* The walk has come to the end of an array that was made shorter: a script was
\* removed.
LEMMA SaveFailsIInv ==
    ASSUME IInv, NEW t \in Threads, SaveFails(t)
    PROVE  IInv'
<1>1. /\ pc[t] = "dump" /\ MoreToWrite /\ Position \notin DOMAIN Walked
      /\ Return(t) /\ walk' = NoWalk /\ fileio' = None
      /\ UNCHANGED <<mem, file, memio, at, uses, edited, wanted, shuffled, excuse>>
    BY DEF SaveFails
<1>2. "file" \in shuffled
    <2>1. Walking /\ WalkInv
        BY <1>1 DEF Walking, IInv
    <2>2. /\ Walked \in Seq(Script) /\ Len(walk.out) \in Nat /\ walk.size \in Nat
        BY LenProperties DEF IInv, StoreTypeOK, Walked
    <2>3. Len(Walked) \in Nat /\ DOMAIN Walked = 1 .. Len(Walked)
        BY <2>2, LenProperties
    <2>4. Len(walk.out) + 1 <= walk.size /\ ~(Len(walk.out) + 1 <= Len(Walked))
        BY <1>1, <2>2, <2>3 DEF MoreToWrite, Position
    <2> HIDE DEF Walked
    <2> QED BY <2>1, <2>2, <2>3, <2>4 DEF WalkInv
<1>3. FileInv'
    BY <1>1, <1>2 DEF FileInv
<1>4. file' \in [state : {"ok", "broken"}, scripts : Seq(Script)]
    BY <1>1 DEF IInv, StoreTypeOK
<1> QED BY <1>1, <1>2, <1>3, <1>4, SaveDone

\* The file is what the walk has written.
LEMMA SaveEndIInv ==
    ASSUME IInv, NEW t \in Threads, SaveEnd(t)
    PROVE  IInv'
<1> DEFINE s == mem.scripts
           o == walk.out
<1>1. /\ pc[t] = "dump" /\ ~MoreToWrite /\ file' = [state |-> "ok", scripts |-> o]
      /\ Return(t) /\ walk' = NoWalk /\ fileio' = None
      /\ UNCHANGED <<mem, memio, at, uses, edited, wanted, shuffled, excuse>>
    BY DEF SaveEnd
<1>2. /\ o \in Seq(Script) /\ Len(o) \in Nat /\ DOMAIN o = 1 .. Len(o) /\ walk.size \in Nat
      /\ s \in Seq(Script) /\ Len(s) \in Nat /\ DOMAIN s = 1 .. Len(s)
      /\ Len(Walked) \in Nat /\ DOMAIN Walked = 1 .. Len(Walked)
    BY LenProperties DEF IInv, StoreTypeOK, Walked
<1>3. walk.size <= Len(o)
    BY <1>1, <1>2 DEF MoreToWrite, Position
<1>4. Walking /\ WalkInv /\ WalkedInv
    BY <1>1 DEF Walking, IInv
<1>5. file' \in [state : {"ok", "broken"}, scripts : Seq(Script)] /\ file'.scripts = o
    BY <1>1, <1>2
<1>6. "file" \notin shuffled => Unique(file'.scripts)
    <2>1. SUFFICES ASSUME "file" \notin shuffled, NEW i \in DOMAIN o, NEW j \in DOMAIN o,
                          o[i].name = o[j].name
                   PROVE  i = j
        BY <1>5 DEF Unique
    <2>2. /\ \A a, b \in DOMAIN Walked : Walked[a].name = Walked[b].name => a = b
          /\ Len(o) <= walk.size /\ walk.size <= Len(Walked)
          /\ \A a \in DOMAIN o : o[a].name = Walked[a].name
        BY <1>4, <2>1 DEF WalkInv, Unique
    <2>3. i \in DOMAIN Walked /\ j \in DOMAIN Walked
        BY <1>2, <2>2
    <2> HIDE DEF Walked, o
    <2> QED BY <2>1, <2>2, <2>3
<1>7. /\ FileInv' => IInv'
      /\ \A n : /\ At({"fill"}, n)' <=> At({"fill"}, n)
                /\ At({"save"}, n)' <=> At({"save"}, n)
    <2> HIDE DEF s, o
    <2> QED BY <1>1, <1>5, <1>6, SaveDone
<1>8. FileInv'
    <2>1. SUFFICES ASSUME ~excuse, "file" \notin shuffled, NEW n \in Names, wanted[n] # None,
                          ~At({"save", "dump"}, n)'
                   PROVE  \/ Has(file'.scripts, n, wanted[n])
                          \/ Has(file'.scripts, n, Hole) /\ At({"fill"}, n)'
        BY <1>1 DEF FileInv
    <2>2. ~At({"save"}, n)
        <3>1. ~At({"save"}, n)'
            BY <2>1 DEF At
        <3> QED BY <1>7, <3>1
    <2>3. PICK i \in DOMAIN s :
              /\ i <= walk.size /\ s[i].name = n
              /\ i <= Len(o) => o[i].content = wanted[n] \/ (o[i].content = Hole /\ At({"fill"}, n))
        BY <1>4, <2>1, <2>2 DEF WalkedInv, WrittenSoFar
    <2>4. i <= Len(o) /\ i \in DOMAIN o
        BY <1>2, <1>3, <2>3
    <2>5. o[i].name = n
        <3>1. Walked = s
            BY <1>4, <2>1, NoExcuse DEF Walked
        <3> HIDE DEF Walked, s, o
        <3> QED BY <1>4, <2>1, <2>3, <2>4, <3>1 DEF WalkInv, o
    <2>6. \E j \in DOMAIN o : o[j].name = n /\ (o[j].content = wanted[n]
                                             \/ (o[j].content = Hole /\ At({"fill"}, n)))
        BY <2>3, <2>4, <2>5
    <2> HIDE DEF s, o
    <2> QED BY <1>5, <1>7, <2>6 DEF Has
<1> QED BY <1>7, <1>8

\* del_script takes the script out of the array.
LEMMA DeleteIInv ==
    ASSUME IInv, NEW t \in Threads, Delete(t)
    PROVE  IInv'
<1> DEFINE n == req[t].name
           k == IndexOf(n)
           s == mem.scripts
           r == mem'.scripts
<1>0. /\ pc'[t] = "idle" /\ \A u \in Threads : u # t => pc'[u] = pc[u] /\ req'[u] = req[u]
      /\ pc' \in [Threads -> Labels] /\ req' \in [Threads -> Request] /\ pc[t] = "op"
      /\ memio.excl = None /\ memio.shared = {}
      /\ mem' = IF k > 0 THEN [mem EXCEPT !.scripts = RemoveAt(s, k)] ELSE mem
      /\ shuffled' = IF k > 0 /\ Walking /\ ~walk.lost THEN shuffled \cup {"file"} ELSE shuffled
      /\ wanted' = [wanted EXCEPT ![n] = None] /\ edited' = edited \cup Users(t)
      /\ UNCHANGED <<file, fileio, memio, at, uses, walk, excuse>>
    BY Returned DEF Delete, MayWrite, Without
<1>1. /\ \A u \in Threads : pc[u] \notin {"find", "fill"}
      /\ s \in Seq(Script) /\ n \in Names /\ (~excuse => mem.loaded) /\ (~mem.loaded => s = <<>>)
      /\ mem \in [loaded : BOOLEAN, scripts : Seq(Script)]
    BY <1>0, OneWriter DEF IInv, LoadedInv, StoreTypeOK, Request, Past
<1>2. k = 0 \/ (k \in 1 .. Len(s) /\ k > 0 /\ s[k].name = n /\ mem.loaded)
    <2>1. /\ k = 0 \/ k \in DOMAIN s
          /\ k # 0 => s[k].name = n
        BY <1>1, IndexFinds
    <2>2. DOMAIN s = 1 .. Len(s) /\ Len(s) \in Nat
        BY <1>1, LenProperties
    <2>3. k # 0 => mem.loaded
        BY <1>1, <2>1
    <2> HIDE DEF k, s
    <2> QED BY <2>1, <2>2, <2>3
<1> HIDE DEF k
<1>3. /\ mem' \in [loaded : BOOLEAN, scripts : Seq(Script)] /\ mem'.loaded = mem.loaded
      /\ (Unique(s) => Unique(r)) /\ (HasHole(r) => HasHole(s)) /\ (~mem.loaded => r = <<>>)
      /\ \A m, d : m # n => (Has(s, m, d) => Has(r, m, d))
    <2>1. CASE k = 0
        BY <1>0, <1>1, <2>1
    <2>2. CASE k # 0
        <3>1. /\ RemoveAt(s, k) \in Seq(Script) /\ (Unique(s) => Unique(RemoveAt(s, k)))
              /\ HasHole(RemoveAt(s, k)) => HasHole(s)
              /\ \A m, d : m # n => (Has(s, m, d) => Has(RemoveAt(s, k), m, d))
            <4> HIDE DEF s
            <4> QED BY <1>1, <1>2, <2>2, RemovalKeeps
        <3>2. mem' = [mem EXCEPT !.scripts = RemoveAt(s, k)]
            BY <1>0, <1>2, <2>2
        <3>3. r = RemoveAt(s, k) /\ mem'.loaded = mem.loaded
            BY <1>1, <3>2
        <3>4. mem' \in [loaded : BOOLEAN, scripts : Seq(Script)]
            BY <1>1, <3>1, <3>2
        <3> QED BY <1>1, <1>2, <2>2, <3>1, <3>3, <3>4
    <2> QED BY <2>1, <2>2
<1>4. /\ wanted' \in [Names -> Contents \cup {None}] /\ wanted'[n] = None
      /\ \A m \in Names : m # n => wanted'[m] = wanted[m]
    BY <1>0, <1>1 DEF IInv, StoreTypeOK
<1>5. StoreTypeOK'
    <2>1. shuffled' \subseteq {"mem", "file"}
        BY <1>0 DEF IInv, StoreTypeOK
    <2> QED BY <1>0, <1>3, <1>4, <2>1 DEF IInv, StoreTypeOK, Labels, Users
<1>6. OpInv' /\ LocksInv'
    BY <1>0 DEF IInv, OpInv, LocksInv
<1>7. LoadedInv' /\ ColdInv'
    BY <1>0, <1>3 DEF IInv, LoadedInv, ColdInv, Past
<1>8. UniqueInv'
    BY <1>0, <1>3 DEF IInv, UniqueInv
<1>9. ShuffledInv'
    BY <1>0, <1>2, <1>3 DEF IInv, ShuffledInv
<1>10. FillInv'
    BY <1>0, <1>1 DEF FillInv
<1>11. HoleInv'
    <2>1. ~excuse => ~HasHole(s)
        BY <1>1 DEF IInv, HoleInv, HasHole
    <2>2. ~excuse => \A i \in DOMAIN r : r[i].content # Hole
        BY <1>3, <2>1 DEF HasHole
    <2>3. ~excuse => mem'.loaded
        BY <1>1, <1>3
    <2> QED BY <1>0, <2>2, <2>3 DEF HoleInv
<1>12. \A m : /\ ~At({"fill"}, m) /\ ~At({"fill"}, m)'
              /\ At({"save"}, m)' <=> At({"save"}, m)
              /\ At({"save", "dump"}, m)' <=> At({"save", "dump"}, m)
    BY <1>0, <1>1 DEF At
<1>13. MemInv'
    <2>1. ~excuse => \A m \in Names : wanted[m] # None => Has(s, m, wanted[m])
        BY <1>1, <1>12 DEF IInv, MemInv
    <2>2. ~excuse => \A m \in Names : wanted'[m] # None => Has(r, m, wanted'[m])
        BY <1>3, <1>4, <2>1
    <2> HIDE DEF r
    <2> QED BY <1>0, <2>2 DEF MemInv, r
<1>14. UnloadedInv'
    BY <1>0, <1>1, <1>3 DEF UnloadedInv
<1>15. (Walking' <=> Walking) /\ ("file" \notin shuffled' => "file" \notin shuffled)
    BY <1>0 DEF Walking
<1>16. Walking /\ "file" \notin shuffled' =>
           /\ Walked' = Walked
           /\ ~excuse => mem' = mem
    <2>1. Walking /\ "file" \notin shuffled' => walk.lost \/ k = 0
        BY <1>0, <1>2
    <2>2. k = 0 => mem' = mem
        BY <1>0
    <2> QED BY <1>0, <2>1, <2>2, NoExcuse DEF Walked
<1>17. WalkInv'
    <2>1. SUFFICES ASSUME Walking
                   PROVE  /\ walk.lost => excuse
                          /\ "file" \notin shuffled' =>
                                /\ Unique(Walked)' /\ "mem" \notin shuffled'
                                /\ Len(walk.out) <= walk.size /\ walk.size <= Len(Walked')
                                /\ \A i \in DOMAIN walk.out : walk.out[i].name = Walked'[i].name
        BY <1>0, <1>15 DEF WalkInv
    <2>2. WalkInv
        BY DEF IInv
    <2>3. "file" \notin shuffled' => Walked' = Walked /\ shuffled' = shuffled
        BY <1>0, <1>16, <2>1
    <2>4. "file" \notin shuffled' => (Unique(Walked)' <=> Unique(Walked))
        BY <2>3 DEF Unique
    <2> HIDE DEF Walked
    <2> QED BY <1>15, <2>1, <2>2, <2>3, <2>4 DEF WalkInv
<1>18. WalkedInv'
    <2>1. SUFFICES ASSUME Walking, ~excuse, "file" \notin shuffled', NEW m \in Names,
                          wanted'[m] # None, ~At({"save"}, m)'
                   PROVE  WrittenSoFar(m)'
        BY <1>0, <1>15 DEF WalkedInv
    <2>2. WrittenSoFar(m) /\ mem' = mem /\ wanted'[m] = wanted[m]
        BY <1>4, <1>12, <1>15, <1>16, <2>1 DEF IInv, WalkedInv
    <2> QED BY <1>0, <1>12, <2>2 DEF WrittenSoFar
<1>19. FileInv'
    BY <1>0, <1>4, <1>12, <1>15 DEF IInv, FileInv
<1>20. ExecInv'
    <2>1. \A u \in Threads : pc'[u] = "exec" =>
              u # t /\ pc[u] = "exec" /\ req'[u] = req[u] /\ (req[u].name = n => u \in edited')
        BY <1>0 DEF Users
    <2>2. ~excuse => \A u \in Threads : pc'[u] = "exec" /\ u \notin edited' =>
              Has(r, req'[u].name, uses[u])
        BY <1>0, <1>3, <2>1 DEF IInv, ExecInv
    <2>3. \A u \in Threads : pc'[u] # "fill"
        BY <1>0, <1>1
    <2> HIDE DEF r
    <2> QED BY <1>0, <2>2, <2>3 DEF ExecInv, r
<1> QED BY <1>5, <1>6, <1>7, <1>8, <1>9, <1>10, <1>11, <1>13, <1>14, <1>17, <1>18, <1>19, <1>20
    DEF IInv

LEMMA CrashIInv ==
    ASSUME IInv, Crash
    PROVE  IInv'
<1>0. /\ mem' = [loaded |-> FALSE, scripts |-> <<>>] /\ fileio' = None
      /\ memio' = [excl |-> None, shared |-> {}, leaked |-> FALSE]
      /\ pc' = [t \in Threads |-> "idle"] /\ at' = [t \in Threads |-> 0]
      /\ req' = [t \in Threads |-> NoRequest] /\ walk' = NoWalk
      /\ uses' = [t \in Threads |-> None] /\ edited' = {}
      /\ wanted' = [n \in Names |-> IF At({"save", "dump"}, n) THEN None ELSE wanted[n]]
      /\ shuffled' = shuffled \ {"mem"}
      /\ excuse' = (excuse \/ Walking \/ HasHole(file.scripts) \/ "file" \in shuffled)
      /\ UNCHANGED file
    <2>1. \A n : At({"save", "dump"}, n) <=>
              \E t \in Threads : req[t].name = n /\ pc[t] \in {"save", "dump"}
        BY DEF At
    <2> QED BY <2>1 DEF Crash, NoArray
<1>1. (\A t \in Threads : pc'[t] = "idle") /\ ~Walking'
    BY <1>0 DEF Walking
<1>2. ~excuse' => ~excuse /\ ~Walking /\ ~HasHole(file.scripts) /\ "file" \notin shuffled
    BY <1>0
<1>3. \A n \in Names : /\ wanted'[n] \in {None, wanted[n]}
                       /\ wanted'[n] # None => wanted'[n] = wanted[n] /\ ~At({"save", "dump"}, n)
    BY <1>0
<1>4. StoreTypeOK'
    <2>1. mem' \in [loaded : BOOLEAN, scripts : Seq(Script)]
        BY <1>0, EmptySeq
    <2>2. memio' \in [excl : Threads \cup {None}, shared : SUBSET Threads, leaked : BOOLEAN]
        BY <1>0
    <2>3. wanted' \in [Names -> Contents \cup {None}]
        <3>1. \A n \in Names : wanted[n] \in Contents \cup {None}
            BY DEF IInv, StoreTypeOK
        <3> QED BY <1>0, <3>1
    <2>4. excuse' \in BOOLEAN
        BY <1>0
    <2>5. pc' \in [Threads -> {"idle"}] /\ at' \in [Threads -> Nat]
        BY <1>0
    <2>6. uses' \in [Threads -> Contents \cup {None}]
        BY <1>0
    <2>7. req' \in [Threads -> Request]
        BY <1>0, NoRequestIs
    <2>8. fileio' = None /\ edited' = {} /\ walk' = NoWalk /\ UNCHANGED file
        BY <1>0
    <2>9. shuffled' \subseteq {"mem", "file"}
        BY <1>0 DEF IInv, StoreTypeOK
    <2> QED BY <2>1, <2>2, <2>3, <2>4, <2>5, <2>6, <2>7, <2>8, <2>9, NoWalkIs DEF IInv, StoreTypeOK
<1>5. LoadedInv' /\ OpInv' /\ FillInv' /\ ExecInv'
    BY <1>0, <1>1 DEF LoadedInv, OpInv, FillInv, ExecInv, Past
<1>6. LocksInv' /\ ColdInv'
    <2>1. \A t \in Threads : fileio' # t /\ memio'.excl # t /\ t \notin memio'.shared
        BY <1>0, StoreAssumption
    <2>2. memio'.excl = None
        BY <1>0
    <2> QED BY <1>0, <1>1, <2>1, <2>2 DEF LocksInv, ColdInv, Past
<1>7. UniqueInv' /\ ShuffledInv'
    <2>1. ("mem" \notin shuffled') /\ ("file" \in shuffled' <=> "file" \in shuffled)
        BY <1>0
    <2>2. UniqueInv'
        BY <1>0, <2>1 DEF IInv, UniqueInv, Unique
    <2> QED BY <1>2, <2>1, <2>2 DEF ShuffledInv
<1>8. HoleInv'
    BY <1>0, <1>2 DEF HoleInv
<1>9. \A n \in Names : ~excuse' /\ wanted'[n] # None =>
          file.state = "ok" /\ Has(file.scripts, n, wanted'[n])
    <2>1. SUFFICES ASSUME ~excuse', NEW n \in Names, wanted'[n] # None
                   PROVE  file.state = "ok" /\ Has(file.scripts, n, wanted'[n])
        OBVIOUS
    <2>2. /\ file.state = "ok"
          /\ Has(file.scripts, n, wanted[n]) \/ Has(file.scripts, n, Hole)
        BY <1>2, <1>3, <2>1 DEF IInv, FileInv
    <2> QED BY <1>2, <1>3, <2>1, <2>2 DEF Has, HasHole
<1>10. UnloadedInv' /\ MemInv' /\ FileInv'
    <2>1. UnloadedInv'
        BY <1>0, <1>9 DEF UnloadedInv
    <2> QED BY <1>0, <1>9, <2>1 DEF MemInv, FileInv
<1>11. WalkInv' /\ WalkedInv'
    BY <1>1 DEF WalkInv, WalkedInv
<1> QED BY <1>4, <1>5, <1>6, <1>7, <1>8, <1>10, <1>11 DEF IInv

LEMMA NextIInv == IInv /\ [Next]_vars => IInv'
<1> SUFFICES ASSUME IInv, [Next]_vars PROVE IInv'
    OBVIOUS
<1>1. ASSUME NEW t \in Threads, Call(t) \/ Serve(t)
      PROVE  IInv'
    <2>1. CASE \/ Call(t) \/ LoadLock(t) \/ RecheckLoaded(t) \/ RecheckLoad(t)
               \/ Reread(t) \/ Parse(t)
        BY <2>1, LoadIInv
    <2>2. CASE LoadEnd(t) \/ Create(t)
        BY <2>2, LoadEndIInv, CreateIInv
    <2>3. CASE ReadBegin(t) \/ ReadEnd(t) \/ ExecScript(t)
        BY <2>3, ReadBeginIInv, ReadEndIInv, ExecScriptIInv
    <2>4. CASE AddBegin(t) \/ AddFind(t) \/ AddFill(t)
        BY <2>4, AddBeginIInv, AddFindIInv, AddFillIInv
    <2>5. CASE SaveBegin(t) \/ SaveNothing(t) \/ SaveScript(t)
        BY <2>5, SaveBeginIInv, SaveNothingIInv, SaveScriptIInv
    <2>6. CASE SaveFails(t) \/ SaveEnd(t)
        BY <2>6, SaveFailsIInv, SaveEndIInv
    <2>7. CASE Delete(t)
        BY <2>7, DeleteIInv
    <2> QED BY <1>1, <2>1, <2>2, <2>3, <2>4, <2>5, <2>6, <2>7 DEF Serve
<1>2. CASE Crash
    BY <1>2, CrashIInv
<1>3. CASE UNCHANGED vars
    <2>1. /\ StoreTypeOK' /\ LoadedInv' /\ OpInv' /\ LocksInv' /\ ColdInv' /\ UniqueInv'
          /\ ShuffledInv' /\ FillInv' /\ HoleInv' /\ UnloadedInv' /\ ExecInv'
        BY <1>3 DEF vars, IInv, StoreTypeOK, LoadedInv, OpInv, LocksInv, ColdInv, UniqueInv,
            ShuffledInv, FillInv, HoleInv, UnloadedInv, ExecInv
    <2>2. MemInv' /\ FileInv' /\ WalkInv' /\ WalkedInv'
        BY <1>3 DEF vars, IInv, MemInv, FileInv, WalkInv, WalkedInv, WrittenSoFar, Walking,
            Walked, Unique, At
    <2> QED BY <2>1, <2>2 DEF IInv
<1> QED BY <1>1, <1>2, <1>3 DEF Next

(***************************************************************************)
(* The theorems.                                                           *)
(***************************************************************************)
\* The invariant above holds in every reachable state, for every number of
\* connections, names and contents.
THEOREM Invariance == Spec => []IInv
<1>1. Init => IInv
    BY InitIInv
<1>2. IInv /\ [Next]_vars => IInv'
    BY NextIInv
<1> QED BY <1>1, <1>2, PTL DEF Spec

\* supertac(): the array, the file, the locks and the walk through the array
\* stay well formed.
THEOREM TypeCorrect == Spec => []StoreTypeOK
<1>1. IInv => StoreTypeOK
    BY DEF IInv
<1> QED BY <1>1, Invariance, PTL

\* add_script: whatever runs at once, no name gets into the array or the file
\* twice, unless a script was deleted while the array was being written.
THEOREM NamesUnique == Spec => []UniqueNames
<1>1. IInv => UniqueNames
    BY DEF IInv, UniqueInv, Unique, UniqueNames
<1> QED BY <1>1, Invariance, PTL

\* save_scripts(): what an acknowledged add_script stored is on file until it is
\* added anew or deleted, although the array is written, script by script,
\* outside of its lock; with the exceptions that AddedIsOnFile names.
THEOREM AddedStored == Spec => []AddedIsOnFile
<1>1. ASSUME IInv PROVE AddedIsOnFile
    <2>1. SUFFICES ASSUME ~excuse, "file" \notin shuffled, NEW n \in Names, wanted[n] # None,
                          ~(\E t \in Threads : req[t].name = n /\ Adding(t)), ~Walking
                   PROVE  /\ file.state = "ok"
                          /\ [name |-> n, content |-> wanted[n]] \in Range(file.scripts)
        BY DEF AddedIsOnFile
    <2>2. ~At({"save", "dump"}, n) /\ ~At({"fill"}, n)
        BY <2>1 DEF At, Adding
    <2>3. file.state = "ok" /\ Has(file.scripts, n, wanted[n])
        BY <1>1, <2>1, <2>2 DEF IInv, FileInv
    <2>4. file.scripts \in Seq(Script) /\ wanted[n] \in Contents \cup {Hole}
        BY <1>1, <2>1 DEF IInv, StoreTypeOK
    <2> QED BY <2>3, <2>4, HasIs
<1> QED BY <1>1, Invariance, PTL

\* get_script(s), exec_script: no reader meets a script in the middle of an
\* update, unless a file half updated was loaded.
THEOREM ReadersWhole == Spec => []ReadersSeeWhole
<1>1. ASSUME IInv PROVE ReadersSeeWhole
    <2>1. SUFFICES ASSUME ~excuse, NEW t \in Threads, pc[t] = "reading"
                   PROVE  ~HasHole(mem.scripts)
        BY DEF ReadersSeeWhole
    <2>2. \A u \in Threads : pc[u] # "fill"
        BY <1>1, <2>1, OneWriter
    <2> QED BY <1>1, <2>1, <2>2 DEF IInv, HoleInv, HasHole
<1> QED BY <1>1, Invariance, PTL

\* exec_script: the content it uses after unlock_shared() is still the stored
\* one, unless a request for the same script came in between, or a first request
\* replaced the whole array.
THEOREM ExecStored == Spec => []ExecUsesStored
<1>1. ASSUME IInv PROVE ExecUsesStored
    <2>1. SUFFICES ASSUME ~excuse, NEW t \in Threads, pc[t] = "exec", t \notin edited
                   PROVE  [name |-> req[t].name, content |-> uses[t]] \in Range(mem.scripts)
        BY DEF ExecUsesStored
    <2>2. PICK i \in DOMAIN mem.scripts :
              mem.scripts[i].name = req[t].name /\ mem.scripts[i].content = uses[t]
        BY <1>1, <2>1 DEF IInv, ExecInv, Has
    <2>3. mem.scripts[i] \in Script
        BY <1>1, <2>2, LenProperties, ElementOfSeq DEF IInv, StoreTypeOK
    <2>4. mem.scripts[i] = [name |-> req[t].name, content |-> uses[t]]
        BY <2>2, <2>3 DEF Script
    <2> QED BY <2>2, <2>4 DEF Range
<1> QED BY <1>1, Invariance, PTL
=============================================================================
