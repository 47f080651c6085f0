----------------------------- MODULE CrapNemesis -----------------------------
(***************************************************************************)
(* The parser of what a node says of a module                               *)
(* (DataProcessing/CrapNemesis.cpp): items "Key[value value ...]", read one   *)
(* character at a time. The text, a string of the node's reply, may end after  *)
(* any of them.                                                             *)
(***************************************************************************)
EXTENDS Integers, SequencesExt, FiniteSetsExt

CONSTANTS
    Letters,    \* characters without a meaning of their own
    MaxLength   \* bound: length of the text

ASSUME MaxLengthAssumption == MaxLength \in Nat
ASSUME LettersAssumption == Letters \cap {" ", "%", "[", "]"} = {}

VARIABLES
    text,   \* what has been read
    state,  \* item_state
    key,    \* sbuf_key
    value,  \* sbuf_value
    values,
    ret

vars == <<text, state, key, value, values, ret>>

Chars == Letters \cup {" ", "%", "[", "]"}

\* Every key that is returned has a value: ParseCrap makes one column of a key
\* with one value, and one of each value of the others. No key and no value
\* holds a bracket, a blank or a percent sign.
ParserTypeOK ==
    /\ text \in Seq(Chars)
    /\ state \in {"key", "value"}
    /\ key \in Seq(Letters) /\ value \in Seq(Letters)
    /\ values \in Seq(Seq(Letters))
    /\ \A k \in DOMAIN ret :
          k \in Seq(Letters) /\ ret[k] \in Seq(Seq(Letters)) /\ ret[k] # <<>>

Init ==
    /\ text = <<>>
    /\ state = "key"
    /\ key = <<>> /\ value = <<>> /\ values = <<>>
    /\ ret = <<>>

Read(c) ==
    /\ Len(text) < MaxLength
    /\ text' = Append(text, c)

EndsValue == state = "value" /\ value # <<>>

Blank ==
    /\ Read(" ")
    /\ IF EndsValue
       THEN /\ values' = Append(values, value)
            /\ value' = <<>>
       ELSE UNCHANGED <<values, value>>
    /\ UNCHANGED <<state, key, ret>>

Percent ==
    /\ Read("%")
    /\ UNCHANGED <<state, key, value, values, ret>>

OpenBracket ==
    /\ Read("[")
    /\ state' = "value"
    /\ UNCHANGED <<key, value, values, ret>>

\* Bug: the last value is pushed only if there is one, as in the case of a blank.
BugAllValues == IF value = <<>> THEN values ELSE Append(values, value)

AllValues == Append(values, value)

CloseBracket ==
    /\ Read("]")
    /\ ret' = [k \in DOMAIN ret \cup {key} |-> IF k = key THEN AllValues ELSE ret[k]]
    /\ values' = <<>> /\ key' = <<>> /\ value' = <<>>
    /\ state' = "key"

Letter(c) ==
    /\ Read(c)
    /\ IF state = "key"
       THEN key' = Append(key, c) /\ UNCHANGED value
       ELSE value' = Append(value, c) /\ UNCHANGED key
    /\ UNCHANGED <<state, values, ret>>

Next == Blank \/ Percent \/ OpenBracket \/ CloseBracket \/ \E c \in Letters : Letter(c)

Spec == Init /\ [][Next]_vars

(***************************************************************************)
(* The reference says where the parts of the text are. An item ends with a    *)
(* "]" and begins after the one before; its key is what is left of its first   *)
(* "[", its values are right of it, with blanks between them.                *)
(***************************************************************************)
Choice(S) == CHOOSE i \in S : TRUE

\* The n-th position of P, and the characters of s at the positions P.
Nth(P, n) == Choice({i \in P : Cardinality({j \in P : j <= i}) = n})

At(s, P) == [n \in 1 .. Cardinality(P) |-> s[Nth(P, n)]]

Ends(s) == {i \in DOMAIN s : s[i] = "]"}

\* Where the item that ends at e begins: after this position.
Before(s, e) == Max({0} \cup {i \in Ends(s) : i < e})

\* Is there a "[" after a, at i or before it?
Opened(s, a, i) == \E j \in a + 1 .. i : s[j] = "["

\* The letters of the key and of the values in the item from a to e.
KeyLetters(s, a, e) == {i \in a + 1 .. e - 1 : s[i] \in Letters /\ ~Opened(s, a, i)}
ValueLetters(s, a, e) == {i \in a + 1 .. e - 1 : s[i] \in Letters /\ Opened(s, a, i)}

\* The letters of the value that ends at i: no blank comes in between.
Piece(s, a, i) ==
    {l \in ValueLetters(s, a, i) : \A j \in l + 1 .. i - 1 : s[j] # " "}

\* The blanks that end a value. The "]" ends one too, which may be empty.
Cuts(s, a, e) == {i \in a + 1 .. e - 1 : s[i] = " " /\ Piece(s, a, i) # {}}

Pieces(s, a, P) ==
    [n \in 1 .. Cardinality(P) |-> At(s, Piece(s, a, Nth(P, n)))]

KeyOf(s, e) == At(s, KeyLetters(s, Before(s, e), e))

ValuesOf(s, e) == Pieces(s, Before(s, e), Cuts(s, Before(s, e), e) \cup {e})

\* Of items with one key the last counts.
Reference(s) ==
    [k \in {KeyOf(s, e) : e \in Ends(s)} |->
        ValuesOf(s, Max({e \in Ends(s) : KeyOf(s, e) = k}))]

\* Wherever the text ends, the items that were whole are returned, each key with
\* its values in order and nothing of another item, the last of those with one
\* name; an item cut short leaves nothing.
ParsesItems == ret = Reference(text)
=============================================================================
