----------------------------- MODULE CallStack -----------------------------
(***************************************************************************)
(* What the stack of a processor is for: a return continues behind the     *)
(* call that is still open, whatever calls and interrupts came between,    *)
(* and a return from an interrupt also brings back the flags of before.    *)
(* A program that takes off something else than was put on last is lost:   *)
(* nothing is promised to it.                                              *)
(***************************************************************************)
EXTENDS Integers, Sequences, SequencesExt

CONSTANTS Word, Longest     \* the words of the machine; bytes of a longest
                            \* instruction

Calls == {"near", "far", "interrupt"}
Kinds == Calls \cup {"flags", "data"}
Address == [cs : Word, ip : Word]

VARIABLES
    entries,    \* what is on the stack
    lost,       \* the program took off what was not there
    at,         \* the address of the next instruction
    flags

vars == <<entries, lost, at, flags>>

Entry == [kind : Kinds, at : Address, flags : Word]

Init ==
    /\ entries = <<>>
    /\ lost = FALSE
    /\ at \in Address
    /\ flags \in Word

\* An instruction puts its kind of entry, its end and the flags on the stack.
PutOn(kind) ==
    \E entry \in {[kind |-> kind, flags |-> flags,
                   at |-> [cs |-> at.cs, ip |-> (at.ip + n) % 65536]] :
                  n \in 1..Longest} :
        /\ entries' = Append(entries, entry)
        /\ kind \notin Calls => at' = entry.at
        /\ kind = "near" => at'.cs = at.cs

Enter(kind) ==
    /\ kind \in Calls
    /\ PutOn(kind)
    /\ at' \in Address
    /\ UNCHANGED <<lost, flags>>

Save(kind) ==
    /\ kind \in Kinds \ Calls
    /\ PutOn(kind)
    /\ UNCHANGED <<lost, flags>>

Open(kind) == entries # <<>> /\ Last(entries).kind = kind

Leave(kind) ==
    LET entry == Last(entries)
    IN  /\ kind \in Calls
        /\ Open(kind)
        /\ entries' = Front(entries)
        /\ at' = IF kind = "near" THEN [at EXCEPT !.ip = entry.at.ip]
                 ELSE entry.at
        /\ flags' = IF kind = "interrupt" THEN entry.flags ELSE flags
        /\ UNCHANGED lost

Restore(kind) ==
    /\ kind \in Kinds \ Calls
    /\ Open(kind)
    /\ entries' = Front(entries)
    /\ at' \in Address
    /\ flags' = IF kind = "flags" THEN Last(entries).flags ELSE flags
    /\ UNCHANGED lost

\* What an instruction that has nothing to do with the stack does.
Go ==
    /\ at' \in Address
    /\ flags' \in Word
    /\ UNCHANGED <<entries, lost>>

GetLost ==
    /\ lost' = TRUE
    /\ entries' = <<>>
    /\ at' \in Address
    /\ flags' \in Word

Next ==
    \/ \E kind \in Kinds :
          \/ Enter(kind) \/ Leave(kind) \/ Save(kind) \/ Restore(kind)
    \/ Go
    \/ GetLost

Spec == Init /\ [][Next]_vars
=============================================================================
