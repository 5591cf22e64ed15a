------------------------- MODULE DecisionLifecycle -------------------------
(***************************************************************************)
(* What the decision queue promises to the two sides that use it.          *)
(*                                                                         *)
(* A waiter (a hook handler, or the worker of a managed spawn) opens a     *)
(* request and blocks on it; reviewers see a board of open decision ids.   *)
(* Each request is answered at most once, an answer is only ever given to  *)
(* an id that is on the board, and giving it takes the id off the board.   *)
(* The detailed queue (DecisionQueue) keeps three maps and a set to do     *)
(* this; it is shown to implement this specification.                      *)
(***************************************************************************)
CONSTANTS Requests,   \* the requests ever made, hook requests and spawns alike
          Ids,        \* the decision ids (UUIDs chosen by the requester)
          IdOf        \* IdOf[r] is the id request r carries

VARIABLES answer,     \* answer[r]: what r's waiter can read from its channel
          board       \* the ids reviewers are shown

Decisions == {"approve", "deny", "ask"}

Init == /\ answer = [r \in Requests |-> "none"]
        /\ board = {}

\* A request is put on the board; an id that is on it already is refused.
Open(r) == /\ answer[r] = "none"
           /\ IdOf[r] \notin board
           /\ answer' = [answer EXCEPT ![r] = "open"]
           /\ board' = board \cup {IdOf[r]}

\* The open requests in S, whose ids are on the board, are all answered d.
Answer(S, d) ==
    /\ \A r \in S : answer[r] = "open" /\ IdOf[r] \in board
    /\ answer' = [r \in Requests |-> IF r \in S THEN d ELSE answer[r]]
    /\ board' = board \ {IdOf[r] : r \in S}

\* An id is taken off the board without an answer: the open requests in S
\* that carried it will read a closed channel.
Withdraw(id, S) ==
    /\ \A r \in S : answer[r] = "open" /\ IdOf[r] = id
    /\ answer' = [r \in Requests |-> IF r \in S THEN "dropped" ELSE answer[r]]
    /\ board' = board \ {id}

\* A request whose id was withdrawn meanwhile loses its channel.
Lose(r) == /\ answer[r] = "open"
           /\ answer' = [answer EXCEPT ![r] = "dropped"]
           /\ UNCHANGED board

Next == \/ \E r \in Requests : Open(r) \/ Lose(r)
        \/ \E S \in SUBSET Requests, d \in Decisions : Answer(S, d)
        \/ \E id \in Ids, S \in SUBSET Requests : Withdraw(id, S)

Spec == Init /\ [][Next]_<<answer, board>>
=============================================================================
