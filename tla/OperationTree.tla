--------------------------- MODULE OperationTree ---------------------------
(***************************************************************************)
(* The cancellation tokens below an operation's own (cancellation.rs with  *)
(* the admission and sealing of concurrency.rs), over the protocol of      *)
(* Operation.tla.  A token has a list of its children under a lock of its  *)
(* own; who cancels or closes one flags it, takes its list and goes down,  *)
(* child by child.  An operation is sealed under its state mutex by the    *)
(* thread that asks or settles, a token below or above it by any thread.   *)
(*                                                                         *)
(* Children are numbered as they are made. Somebody keeps each of them: a  *)
(* token that nobody holds leaves the lists, which are weak. A child that  *)
(* is refused is cancelled at once and never linked. The hooks a seal      *)
(* collects run later, as the calls of Operation.tla.                      *)
(***************************************************************************)
EXTENDS Operation

CONSTANTS MaxChildren, \* bound on the tokens that are made
          Cancellers,  \* threads that cancel tokens
          None         \* no token

Children == 1..MaxChildren
Nodes    == Ops \cup Children
Sealers  == Ops \cup Cancellers

ASSUME TreeAssumption ==
  /\ MaxChildren \in Nat /\ Ops \cap Children = {} /\ Ops \cap Cancellers = {}
  /\ None \notin Nodes

VARIABLES
  made,    \* how many children there are
  parent,  \* the token each was made from
  linking, \* children whose making still holds the lock of their parent's list
  listed,  \* children in their parent's list
  cut,     \* children that are cancelled
  sealing  \* seals under way: the token whose list is next, children ahead

treeVars == <<made, parent, linking, listed, cut, sealing>>
allVars  == <<operationVars, treeVars>>

Rest == [at |-> None, todo |-> {}]

TreeInit ==
  /\ Init
  /\ made = 0 /\ parent = [c \in Children |-> None]
  /\ linking = {} /\ listed = {} /\ cut = {}
  /\ sealing = [s \in Sealers |-> Rest]

(* Mutation of Open: a token that is only deactivated admits children. *)
OpenUntilCancelled(n) == IF n \in Ops THEN ~token[n].cancelled ELSE n \notin cut

(* cancellation_admission_open *)
Open(n) == IF n \in Ops THEN token[n].active /\ ~token[n].cancelled
                        ELSE n \notin cut

Live == 1..made \ linking

(* Nobody is making a child of n. *)
ListFree(n) == \A c \in linking : parent[c] # n

(* try_child: the first test and the link *)
NewChild(n) ==
  /\ made < MaxChildren /\ n \in Ops \cup Live /\ ListFree(n) /\ Open(n)
  /\ made' = made + 1 /\ parent' = [parent EXCEPT ![made + 1] = n]
  /\ linking' = linking \cup {made + 1} /\ listed' = listed \cup {made + 1}
  /\ UNCHANGED <<operationVars, cut, sealing>>

(* the second test, before the lock is given up *)
RecheckChild(c) ==
  /\ c \in linking /\ linking' = linking \ {c}
  /\ cut' = IF Open(parent[c]) THEN cut ELSE cut \cup {c}
  /\ UNCHANGED <<operationVars, made, parent, listed, sealing>>

-----------------------------------------------------------------------------
(* cancel: who flags a token first goes on with its list *)
CancelChild(t, c) ==
  /\ sealing[t] = Rest /\ c \in Live \ cut
  /\ cut' = cut \cup {c} /\ sealing' = [sealing EXCEPT ![t].at = c]
  /\ UNCHANGED <<operationVars, made, parent, linking, listed>>

CancelAbove(t, o) ==
  /\ sealing[t] = Rest /\ SealFromParent(o)
  /\ sealing' = [sealing EXCEPT ![t].at = o]
  /\ UNCHANGED <<made, parent, linking, listed, cut>>

(* take_live_children *)
TakeChildren(s) ==
  LET n == sealing[s].at
      taken == {c \in listed : parent[c] = n}
  IN /\ n # None /\ ListFree(n)
     /\ listed' = listed \ taken
     /\ sealing' = [sealing EXCEPT ![s] = [at |-> None, todo |-> @.todo \cup taken]]
     /\ UNCHANGED <<operationVars, made, parent, linking, cut>>

(* seal_cancelled_tree of the next child; one already cancelled is left *)
SealChild(s, c) ==
  /\ sealing[s].at = None /\ c \in sealing[s].todo
  /\ cut' = cut \cup {c}
  /\ sealing' = [sealing EXCEPT ![s] = [at   |-> IF c \in cut THEN None ELSE c,
                                        todo |-> @.todo \ {c}]]
  /\ UNCHANGED <<operationVars, made, parent, linking, listed>>

SealStep(s) == TakeChildren(s) \/ \E c \in Children : SealChild(s, c)

(* A call that flags its operation's token seals what is below it before it *)
(* gives up the operation's mutex.                                          *)
Call(o) ==
  /\ sealing[o] = Rest
  /\ \/ TerminalStep(o) \/ CallStep(o) \/ SupervisorStep(o)
     \/ \E w \in Waiters : WaiterStep(o, w)
  /\ sealing' = IF token'[o] = token[o] THEN sealing
                ELSE [sealing EXCEPT ![o].at = o]
  /\ UNCHANGED <<made, parent, linking, listed, cut>>

TreeNext ==
  \/ \E o \in Ops : Call(o)
  \/ \E n \in Nodes : NewChild(n)
  \/ \E c \in Children : RecheckChild(c)
  \/ \E t \in Cancellers, c \in Children : CancelChild(t, c)
  \/ \E t \in Cancellers, o \in Ops : CancelAbove(t, o)
  \/ \E s \in Sealers : SealStep(s)

TreeSpec == TreeInit /\ [][TreeNext]_allVars

(* Whoever is inside a critical section, or was told, runs on. *)
Unhindered(o) == sealing[o] = Rest /\ UNCHANGED treeVars

FairTreeSpec ==
  /\ TreeSpec
  /\ \A c \in Children : WF_allVars(RecheckChild(c))
  /\ \A o \in Ops : WF_allVars(SealStep(o)) /\ WF_allVars(Unhindered(o) /\ TerminalStep(o))
  /\ \A o \in Ops, w \in Waiters : WF_allVars(Unhindered(o) /\ Recheck(o, w))
-----------------------------------------------------------------------------
(* An operation that was asked to end, ends or has ended. *)
Ending(n) == IF n \in Ops THEN terminalInProgress[n] \/ IsTerminal(n)
                               \/ reason[n] # "none" \/ ~Open(n)
                          ELSE n \in cut

(* No child of a token escapes its parent's end, whoever admitted it while  *)
(* the parent was asked to end, began its terminal transaction or was       *)
(* sealed from above: it is cancelled, or a seal under way has it ahead of  *)
(* it, or will find it in its parent's list.                                *)
NoChildEscapes ==
  \A c \in 1..made \ cut : Ending(parent[c]) =>
    \E s \in Sealers : \/ c \in sealing[s].todo
                       \/ sealing[s].at = parent[c] /\ c \in listed
=============================================================================
