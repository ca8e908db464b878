------------------------------- MODULE Events -------------------------------
(***************************************************************************)
(* DOM events (domc's src/events.c): listeners are kept per target in an   *)
(* array whose holes are used again; dispatchEvent copies the ancestors of *)
(* the target and triggers their capturing listeners from the root down,   *)
(* then the listeners of the target, then the others of the ancestors.     *)
(*                                                                         *)
(* The code is called by one thread, but a listener may call all of it     *)
(* again, so a dispatch is a frame of a stack, and what a listener does    *)
(* comes between two steps of the frame below.  A step of trigger is the   *)
(* call of one listener.                                                   *)
(*                                                                         *)
(* A definition X_slip is a mistake that X could contain; no behaviour of  *)
(* the model uses it.                                                      *)
(***************************************************************************)
EXTENDS Integers, SequencesExt, FiniteSetsExt

CONSTANTS Targets, NULL,
          Tree,      \* the parent of each target when the program begins
          Listeners, \* entries: a type, an object, a function, useCapture
          Evts,      \* event objects
          Types,     \* their types
          First,     \* those they have when the program begins
          Memory,    \* whether malloc may give memory, and whether it may not
          MaxDepth,  \* model bound: dispatches inside one another
          MaxOps     \* model bound: calls that change something

(* Nobody is his own ancestor.                                              *)
EventsAssumption ==
         /\ Tree \in [Targets -> Targets \cup {NULL}]
         /\ \A S \in SUBSET Targets : S # {} => \E t \in S : Tree[t] \notin S
         /\ \A l \in Listeners : l.type \in Types /\ l.capture \in BOOLEAN
         /\ Memory \subseteq BOOLEAN /\ TRUE \in Memory
         /\ NULL \notin Targets \cup Listeners \cup Types
         /\ First \subseteq Types \cup {NULL}

VARIABLES
  listeners, \* target->listeners, an array with NULL holes
  parent,    \* node->parentNode
  evt,       \* the fields of the event objects
  stack,     \* the dispatches that have not returned, the innermost last
  lost,      \* targets whose array of listeners was lost: listeners is a null
             \* pointer, listeners_len is not 0
  exception, \* DOM_Exception # 0
  ret,       \* what the last call of dispatchEvent returned, and for whom
  ops        \* calls left

vars == <<listeners, parent, evt, stack, lost, exception, ret, ops>>

(* A frame: the event and its target, the saved ancestors (root first), the *)
(* number of the visit, the index j and the copy of the functions in        *)
(* trigger, and whether a listener runs.  Auxiliary: the listeners of the   *)
(* visited target when trigger began (old), those of them registered ever   *)
(* since (kept), those called (called), and the visit stopped at.           *)
Frame(ev, t, p) == [ev |-> ev, target |-> t, path |-> p, visit |-> 1, j |-> 0,
                    copy |-> <<>>, calling |-> FALSE,
                    old |-> {}, kept |-> {}, called |-> <<>>, stopped |-> 0]

Init == /\ listeners = [t \in Targets |-> <<>>]
        /\ parent = Tree
        /\ evt \in [Evts -> [type : First, bubbles : {TRUE}, cancelable : {TRUE},
                             sp : {FALSE}, pd : {FALSE}]]
        /\ stack = <<>> /\ lost = {} /\ exception = FALSE
        /\ ret = NULL /\ ops = MaxOps

Top == Last(stack)

(* Code of the program runs: outside of any dispatch, or a listener.        *)
ClientRuns == IF stack = <<>> THEN TRUE ELSE Top.calling

Spend == ops > 0 /\ ops' = ops - 1

(* Visits 1 to n are to the n ancestors on the way down, n + 1 is to the    *)
(* target, and the later ones to the ancestors on the way up.               *)
AtTarget(f) == Len(f.path) + 1

Visited(f) == IF f.visit < AtTarget(f) THEN f.path[f.visit]
              ELSE IF f.visit = AtTarget(f) THEN f.target
              ELSE f.path[2 * AtTarget(f) - f.visit]

Registered(t) == Range(listeners[t]) \ {NULL}

-----------------------------------------------------------------------------
(* Listeners come and go.                                                   *)
Added_slip(s, l) == IF NULL \in Range(s)
                    THEN [s EXCEPT ![SelectInSeq(s, LAMBDA x : x = NULL)] = l]
                    ELSE IF l \in Range(s) THEN s ELSE Append(s, l)

Added(s, l) == IF l \in Range(s) THEN s
               ELSE IF NULL \in Range(s)
                    THEN [s EXCEPT ![SelectInSeq(s, LAMBDA x : x = NULL)] = l]
                    ELSE Append(s, l)

Removed_slip(s, l) == Append(SelectSeq(s, LAMBDA x : x # l), NULL)

Removed(s, l) == [i \in DOMAIN s |-> IF s[i] = l THEN NULL ELSE s[i]]

(* Without memory for the entry the array stays; when realloc cannot make   *)
(* it longer it is lost.  Whoever reads an array that is lost crashes, which *)
(* is no step of the model.                                                 *)
addEventListener(t, l) ==
  /\ ClientRuns /\ Spend /\ t \notin lost
  /\ \/ /\ listeners' = [listeners EXCEPT ![t] = Added(@, l)]
        /\ UNCHANGED <<lost, exception>>
     \/ /\ FALSE \in Memory /\ l \notin Registered(t)
        /\ lost' \in {lost} \cup (IF NULL \in Range(listeners[t]) \/ listeners[t] = <<>>
                                THEN {} ELSE {lost \cup {t}})
        /\ exception' = TRUE /\ UNCHANGED listeners
  /\ UNCHANGED <<parent, evt, stack, ret>>

removeEventListener(t, l) ==
  /\ ClientRuns /\ Spend /\ t \notin lost /\ l \in Registered(t)
  /\ listeners' = [listeners EXCEPT ![t] = Removed(@, l)]
  /\ stack' = [i \in DOMAIN stack |->
                 IF Visited(stack[i]) = t
                 THEN [stack[i] EXCEPT !.kept = @ \ {l}] ELSE stack[i]]
  /\ UNCHANGED <<parent, evt, lost, exception, ret>>

-----------------------------------------------------------------------------
(* What a program does with an event, and with the tree.                    *)
initEvent(ev, type, bubbles, cancelable) ==
  /\ ClientRuns /\ Spend
  /\ evt' = [evt EXCEPT ![ev].type = type, ![ev].bubbles = bubbles,
                        ![ev].cancelable = cancelable]
  /\ UNCHANGED <<listeners, parent, stack, lost, exception, ret>>

stopPropagation ==
  /\ stack # <<>> /\ Top.calling /\ Spend
  /\ evt' = [evt EXCEPT ![Top.ev].sp = TRUE]
  /\ stack' = [stack EXCEPT ![Len(stack)].stopped = IF @ = 0 THEN Top.visit ELSE @]
  /\ UNCHANGED <<listeners, parent, lost, exception, ret>>

preventDefault ==
  /\ stack # <<>> /\ Top.calling /\ Spend
  /\ evt[Top.ev].cancelable
  /\ evt' = [evt EXCEPT ![Top.ev].pd = TRUE]
  /\ UNCHANGED <<listeners, parent, stack, lost, exception, ret>>

(* A node is taken out of the tree.                                         *)
Detach(t) ==
  /\ ClientRuns /\ Spend /\ parent[t] # NULL
  /\ parent' = [parent EXCEPT ![t] = NULL]
  /\ UNCHANGED <<listeners, evt, stack, lost, exception, ret>>

(* The program resets the exception.                                        *)
Handled == /\ ClientRuns /\ exception /\ exception' = FALSE
           /\ UNCHANGED <<listeners, parent, evt, stack, lost, ret, ops>>

-----------------------------------------------------------------------------
(* dispatchEvent.                                                           *)
Ancestors[t \in Targets] ==
  IF parent[t] = NULL THEN <<>> ELSE Append(Ancestors[parent[t]], parent[t])

(* An event is not dispatched again while it is being dispatched.           *)
dispatchEvent(t, ev) ==
  /\ ClientRuns /\ Spend
  /\ evt[ev].type # NULL
  /\ Len(stack) < MaxDepth /\ \A i \in DOMAIN stack : stack[i].ev # ev
  /\ evt' = [evt EXCEPT ![ev].sp = FALSE, ![ev].pd = FALSE]
  /\ \/ /\ stack' = Append(stack, Frame(ev, t, Ancestors[t]))
        /\ UNCHANGED <<exception, ret>>
     \/ /\ FALSE \in Memory /\ Ancestors[t] # <<>>
        /\ ret' = <<ev, 1>>
        /\ exception' = TRUE
        /\ stack' = stack
  /\ UNCHANGED <<listeners, parent, lost>>

(* There is no further target to visit.                                     *)
Over_slip(f) == \/ f.visit > AtTarget(f) + Len(f.path)
                \/ evt[f.ev].sp /\ f.visit <= AtTarget(f)
                \/ f.visit > AtTarget(f) /\ ~evt[f.ev].bubbles

Over(f) == \/ f.visit > AtTarget(f) + Len(f.path)
           \/ evt[f.ev].sp
           \/ f.visit > AtTarget(f) /\ ~evt[f.ev].bubbles

(* trigger calls the listener in slot i of the visited target.              *)
Wanted(f, i) == LET l == listeners[Visited(f)][i]
                IN  /\ l # NULL
                    /\ l.fn = f.copy[i]
                    /\ l.capture = (f.visit < AtTarget(f))
                    /\ l.type = evt[f.ev].type

Ahead(f) == {i \in f.j .. Len(f.copy) : Wanted(f, i)}

Readable(f) == f.j <= Len(f.copy) => Visited(f) \notin lost

Onward(f) == [f EXCEPT !.visit = @ + 1, !.j = 0, !.copy = <<>>,
                       !.old = {}, !.kept = {}, !.called = <<>>]

(* The dispatch below the running code goes one step on.                    *)
Going == stack # <<>> /\ ~Top.calling
Becomes(f) == stack' = [stack EXCEPT ![Len(stack)] = f]

(* Without memory for the copy a target that has listeners is passed over.  *)
TriggerBegins ==
  /\ Going /\ Top.j = 0 /\ ~Over(Top)
  /\ LET t == Visited(Top)
         s == listeners[t]
     IN  \/ /\ s # <<>> /\ t \notin lost
            /\ UNCHANGED exception
            /\ Becomes([Top EXCEPT !.j = 1,
                          !.copy = [i \in DOMAIN s |-> IF s[i] = NULL THEN NULL ELSE s[i].fn],
                          !.old = Registered(t), !.kept = Registered(t)])
         \/ /\ s = <<>>
            /\ UNCHANGED exception
            /\ Becomes(Onward(Top))
         \/ /\ s # <<>> /\ FALSE \in Memory
            /\ exception' = TRUE
            /\ Becomes(Onward(Top))
  /\ UNCHANGED <<listeners, parent, evt, lost, ret, ops>>

Call == LET i == Min(Ahead(Top)) IN
  /\ Going /\ Top.j > 0 /\ Readable(Top) /\ Ahead(Top) # {}
  /\ Becomes([Top EXCEPT !.j = i, !.calling = TRUE,
                         !.called = Append(@, listeners[Visited(Top)][i])])
  /\ UNCHANGED <<listeners, parent, evt, lost, exception, ret, ops>>

ListenerReturns ==
  /\ stack # <<>> /\ Top.calling
  /\ Becomes([Top EXCEPT !.calling = FALSE, !.j = @ + 1])
  /\ UNCHANGED <<listeners, parent, evt, lost, exception, ret, ops>>

TriggerEnds ==
  /\ Going /\ Top.j > 0 /\ Readable(Top) /\ Ahead(Top) = {}
  /\ Becomes(Onward(Top))
  /\ UNCHANGED <<listeners, parent, evt, lost, exception, ret, ops>>

DispatchReturns ==
  /\ Going /\ Top.j = 0 /\ Over(Top)
  /\ stack' = Front(stack)
  /\ ret' = <<Top.ev, IF evt[Top.ev].pd THEN 0 ELSE 1>>
  /\ UNCHANGED <<listeners, parent, evt, lost, exception, ops>>

Next == \/ \E t \in Targets, l \in Listeners :
             addEventListener(t, l) \/ removeEventListener(t, l)
        \/ \E ev \in Evts, type \in Types, b, c \in BOOLEAN : initEvent(ev, type, b, c)
        \/ stopPropagation
        \/ preventDefault
        \/ \E t \in Targets : Detach(t)
        \/ Handled
        \/ \E t \in Targets, ev \in Evts : dispatchEvent(t, ev)
        \/ TriggerBegins
        \/ Call
        \/ ListenerReturns
        \/ TriggerEnds
        \/ DispatchReturns

Spec == Init /\ [][Next]_vars

-----------------------------------------------------------------------------
(* Every event object is dispatched at most once at a time, every frame is  *)
(* somewhere on its way, and a target holds no listener twice, however its  *)
(* holes were filled: removing a listener once must silence it.             *)
ListenersDistinct ==
  /\ \A t \in Targets : \A i, k \in DOMAIN listeners[t] :
       listeners[t][i] = listeners[t][k] => i = k \/ listeners[t][i] = NULL
  /\ \A i \in DOMAIN stack :
       /\ stack[i].visit \in 1 .. AtTarget(stack[i]) + Len(stack[i].path) + 1
       /\ stack[i].j <= Len(stack[i].copy) + 1
       /\ stack[i].calling <=> i < Len(stack) \/ (i = Len(stack) /\ ClientRuns)

(* When trigger is done with a target, it has called every listener that it *)
(* found there, that is for this event and phase, and that nobody removed   *)
(* meanwhile, exactly once, whatever the listeners did to the array; for an *)
(* event whose type a listener changed this is not asked.  A target with    *)
(* listeners that it passes over without calling any is one for which it    *)
(* had no memory: DOM_Exception says so.                                    *)
Due(f) == {l \in f.kept : /\ l.capture = (f.visit < AtTarget(f))
                          /\ l.type = evt[f.ev].type}
PassesOver == TriggerBegins /\ Becomes(Onward(Top))
EachOnce == [][/\ TriggerEnds =>
                    \/ \E l \in Range(Top.called) : l.type # evt[Top.ev].type
                    \/ \A l \in Due(Top) : \E i \in DOMAIN Top.called :
                         {k \in DOMAIN Top.called : Top.called[k] = l} = {i}
               /\ PassesOver => listeners[Visited(Top)] = <<>> \/ exception']_vars

(* After a listener called stopPropagation, the other listeners of the same *)
(* visit are still called, and nobody of any later one, also when other     *)
(* events were dispatched in between and the tree or the lists changed.     *)
StopHolds == [][Call => Top.stopped \in {0, Top.visit}]_vars

(* The comment in trigger says that a listener which was put in the place   *)
(* of one that was removed "should be skipped": no listener is called that  *)
(* was not there when trigger copied the array.                             *)
NewOnesWait == [][Call => listeners[Visited(Top)][Min(Ahead(Top))] \in Top.old]_vars
=============================================================================
