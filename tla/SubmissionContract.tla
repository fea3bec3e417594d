------------------------ MODULE SubmissionContract ------------------------
(***************************************************************************)
(* What a client of the submission endpoints may rely on.                  *)
(*                                                                         *)
(* A call asks for something under an id: the key it sends, or, without a  *)
(* key, an id of its own.  The book gives each id, once and for ever, the  *)
(* call whose job it names and what that call meant.  A call is accepted   *)
(* with the job in the book when it means the same, is told of a conflict  *)
(* when it means something else, and may be told of an error at any time:  *)
(* an error says nothing about the book.  A refused call has stored        *)
(* nothing.                                                                *)
(*                                                                         *)
(* The contract knows nothing of tables, transactions, replays or retries. *)
(***************************************************************************)
CONSTANTS Calls,        \* the calls clients make; a retry is a call of its own
          Ids,          \* what a call may ask under
          Meanings,     \* what a call may ask for
          None

VARIABLES asked,        \* what each call asks for
          book,         \* what each id stands for
          answer        \* what each call was told

contractVars == <<asked, book, answer>>

Entries == [by : Calls, meaning : Meanings]

Answers == [code : {"accepted"}, by : Calls]
             \cup [code : {"conflict", "refused", "error"}]

ContractInit ==
    /\ asked = [c \in Calls |-> None]
    /\ book = [i \in Ids |-> None]
    /\ answer = [c \in Calls |-> None]

Open(c) == asked[c] # None /\ answer[c] = None

Ask(c) ==
    /\ asked[c] = None
    /\ asked'[c] \in [id : Ids, meaning : Meanings]
    /\ asked' = [asked EXCEPT ![c] = asked'[c]]
    /\ UNCHANGED <<book, answer>>

Enters(c) ==
    /\ book[asked[c].id] = None
    /\ book' = [book EXCEPT ![asked[c].id] =
                  [by |-> c, meaning |-> asked[c].meaning]]

\* The job is stored, and the call does not know it yet.
Register(c) == Enters(c) /\ UNCHANGED <<asked, answer>>

Answered(c, a) == answer' = [answer EXCEPT ![c] = a] /\ UNCHANGED asked

Accept(c) ==
    /\ Enters(c) \/ UNCHANGED book
    /\ LET entry == book'[asked[c].id]
       IN /\ entry # None /\ entry.meaning = asked[c].meaning
          /\ Answered(c, [code |-> "accepted", by |-> entry.by])

Conflict(c) ==
    /\ LET entry == book[asked[c].id]
       IN entry # None /\ entry.meaning # asked[c].meaning
    /\ Answered(c, [code |-> "conflict"])
    /\ UNCHANGED book

Refuse(c) ==
    /\ book[asked[c].id] = None \/ book[asked[c].id].by # c
    /\ Answered(c, [code |-> "refused"])
    /\ UNCHANGED book

\* Also when the job is stored in the same step.
Break(c) == (Enters(c) \/ UNCHANGED book) /\ Answered(c, [code |-> "error"])

ContractNext ==
    \E c \in Calls :
        \/ Ask(c)
        \/ Open(c) /\ (Register(c) \/ Accept(c) \/ Conflict(c) \/ Refuse(c) \/ Break(c))

ContractSpec == ContractInit /\ [][ContractNext]_contractVars
=============================================================================
