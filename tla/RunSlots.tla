------------------------------ MODULE RunSlots ------------------------------
(***************************************************************************)
(* What the group queue promises about its slots: a chat holds at most one *)
(* slot, at most MaxConcurrent are held, and a slot is granted in the      *)
(* order of the waiting line.  GroupQueue implements this module.          *)
(***************************************************************************)
EXTENDS Naturals, Sequences, FiniteSets

CONSTANTS Groups, MaxConcurrent

VARIABLES holder,  \* what a chat's slot is used for, "none" without a slot
          line     \* chats waiting for a slot, first come first served

Held == {g \in Groups : holder[g] # "none"}

Init == /\ holder = [g \in Groups |-> "none"]
        /\ line = <<>>

\* A chat that holds no slot joins the line, once.
Join(g) ==
  /\ holder[g] = "none"
  /\ \A i \in 1..Len(line) : line[i] # g
  /\ line' = Append(line, g)
  /\ UNCHANGED holder

\* Nobody passes the line: only its head is served, and only an empty line
\* lets another chat take a slot at once.
Grant(g, use) ==
  /\ holder[g] = "none"
  /\ Cardinality(Held) < MaxConcurrent
  /\ \/ line = <<>> /\ UNCHANGED line
     \/ line # <<>> /\ g = Head(line) /\ line' = Tail(line)
  /\ holder' = [holder EXCEPT ![g] = use]

Release(g) ==
  /\ holder[g] # "none"
  /\ holder' = [holder EXCEPT ![g] = "none"]
  /\ UNCHANGED line

Next == \E g \in Groups : \/ Join(g)
                          \/ \E use \in {"chat", "task"} : Grant(g, use)
                          \/ Release(g)

Spec == Init /\ [][Next]_<<holder, line>>
=============================================================================
