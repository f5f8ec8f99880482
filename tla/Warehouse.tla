------------------------------ MODULE Warehouse ------------------------------
(***************************************************************************)
(* What users of the data warehouse may count on for one table: once the   *)
(* write of a client that had the table to itself has ended, the table     *)
(* holds what was written, whole, until the next write begins, and a read  *)
(* that no write disturbs returns it.  A write that is given up, and two   *)
(* writes at a time, leave the table uncertain; two at a time for good.    *)
(***************************************************************************)
CONSTANTS
  Clients,
  Contents,  \* what a write may ask for
  Uncertain, \* the table holds anything
  None

VARIABLES
  content,   \* what the table holds
  writing,   \* what each client is writing, or None
  mixed,     \* two writes have overlapped
  view,      \* what the table held when a client began to read
  answer     \* what the last read of a client returned

vars == <<content, writing, mixed, view, answer>>

Init ==
  /\ content \in Contents
  /\ writing = [c \in Clients |-> None]
  /\ mixed = FALSE
  /\ view = [c \in Clients |-> None]
  /\ answer = [c \in Clients |-> None]

StartWrite(c) ==
  /\ writing[c] = None
  /\ \E x \in Contents : writing' = [writing EXCEPT ![c] = x]
  /\ mixed' = (mixed \/ \E d \in Clients : writing[d] # None)
  /\ content' = Uncertain
  /\ view' = [d \in Clients |-> IF view[d] = None THEN None ELSE Uncertain]
  /\ answer' = [answer EXCEPT ![c] = None]

EndWrite(c) ==
  /\ writing[c] # None
  /\ writing' = [writing EXCEPT ![c] = None]
  /\ content' = IF mixed THEN Uncertain ELSE writing[c]
  /\ UNCHANGED <<mixed, view, answer>>

GiveUp(c) ==
  /\ writing[c] # None
  /\ writing' = [writing EXCEPT ![c] = None]
  /\ UNCHANGED <<content, mixed, view, answer>>

StartRead(c) ==
  /\ view[c] = None
  /\ view' = [view EXCEPT ![c] = content]
  /\ answer' = [answer EXCEPT ![c] = None]
  /\ UNCHANGED <<content, writing, mixed>>

EndRead(c) ==
  /\ view[c] # None
  /\ view' = [view EXCEPT ![c] = None]
  /\ answer' = [answer EXCEPT ![c] = answer'[c]]
  /\ view[c] # Uncertain => answer'[c] = view[c]
  /\ UNCHANGED <<content, writing, mixed>>

StopRead(c) ==
  /\ view[c] # None
  /\ view' = [view EXCEPT ![c] = None]
  /\ UNCHANGED <<content, writing, mixed, answer>>

Next == \E c \in Clients :
  \/ StartWrite(c) \/ EndWrite(c) \/ GiveUp(c)
  \/ StartRead(c) \/ EndRead(c)
  \/ StopRead(c)

Spec == Init /\ [][Next]_vars

==============================================================================
