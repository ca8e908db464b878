-------------------------------- MODULE Domc --------------------------------
(* The tree of domc, its events and its attributes side by side.  They      *)
(* share no state: part, chosen when a behaviour begins, says which of them *)
(* moves in it.                                                             *)
EXTENDS Integers, Sequences

CONSTANTS NULL,
          Memory,     \* whether malloc may give memory, and whether it may not
          \* Dom, and Attributes
          Doc, Elements, Comments, Doctypes, Fragments, FillFactor, Moves, ReplaceUnmapped,
          Attrs, Names, Values, AttrFillFactor, ReplacesMapped,
          \* Events
          Targets, Parents, Listeners, Evts, Types, First, MaxDepth, MaxOps

VARIABLES
  part,
  dom,
  listeners, parent, evt, stack, lost, raised, dispatched, ops,
  entries, map, name, value, owner, torn, failed, called

domVars    == <<dom>>
eventVars  == <<listeners, parent, evt, stack, lost, raised, dispatched, ops>>
attrVars   == <<entries, map, name, value, owner, torn, failed, called>>

vars == <<part, domVars, eventVars, attrVars>>

-----------------------------------------------------------------------------
D == INSTANCE Dom
E == INSTANCE Events WITH exception <- raised, ret <- dispatched, Tree <- Parents
A == INSTANCE Attributes WITH exception <- failed, ret <- called, FillFactor <- AttrFillFactor

ASSUME DomcAssumption ==
       D!DomAssumption /\ E!EventsAssumption /\ A!AttributesAssumption

-----------------------------------------------------------------------------
Start == D!Init /\ E!Init /\ A!Init

Init == part \in {"dom", "events", "attributes"} /\ Start

Dom        == /\ part = "dom" /\ D!Next
              /\ UNCHANGED <<part, eventVars, attrVars>>
Events     == /\ part = "events" /\ E!Next
              /\ UNCHANGED <<part, domVars, attrVars>>
Attributes == /\ part = "attributes" /\ A!Next
              /\ UNCHANGED <<part, domVars, eventVars>>

Next == Dom \/ Events \/ Attributes

Spec == Init /\ [][Next]_vars

-----------------------------------------------------------------------------
(* Every call on nodes leaves them a tree: the links of nodes, both ways    *)
(* round, agree with the lists, no node is below itself, and the map of a   *)
(* long list has the nodes of the list.                                     *)
LinksRight == part = "dom" => D!TypeOK /\ D!LinksRight /\ D!MapRight /\ D!Acyclic

(* The document has at most one element, documentElement, whatever comes    *)
(* and goes around it.                                                      *)
OneDocumentElement == D!OneDocumentElement

(* What a call does to the lists of nodes is a move of OrderedTree.         *)
TreeSpec == D!TreeSpec

(* A visit calls every listener it found and nobody removed exactly once,   *)
(* whatever the listeners do to the array meanwhile, or, when there is no   *)
(* memory, nobody, and sets DOM_Exception; and after stopPropagation nobody *)
(* is called in a later visit.                                              *)
EventsRight == [][part = "events" => E!ListenersDistinct']_vars /\ E!EachOnce /\ E!StopHolds

(* An attribute is in the one element that it names, an element has one of  *)
(* a name, and a call changes what is read under no other name.             *)
AttributesRight == [][part = "attributes" => A!OneOwner']_vars /\ A!OthersKeep
=============================================================================
