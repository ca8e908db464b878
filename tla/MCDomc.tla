------------------------------- MODULE MCDomc -------------------------------
(* Small instances of the modules of domc, character data and loading as    *)
(* two more parts.                                                          *)
EXTENDS Domc, TLC

CONSTANTS e1, e2,                                    \* elements, and events
          doc, com, doctype, fragment,               \* Dom
          root, leaf, x, y, f, g, type,              \* Events
          a1, a2, a3, n1, n2, v1, v2,                \* Attributes
          t1, t2, t3, element, plain, acute, wide,   \* Chardata
          Width, Texts, Others, Strings, Counts, MaxData,
          Chars, Pieces, MaxStack, MaxCalls          \* Expatls

VARIABLES kids, data, len, exception, did,
          nodes, stk, cdata, error, path, log, silent, loaded

textVars == <<kids, data, len, exception, did>>
loadVars == <<nodes, stk, cdata, error, path, log, silent, loaded>>

(* A root with a child; listeners for two objects and two functions, which  *)
(* come and go during two dispatches, one inside the other.                 *)
RootAndLeaf == (root :> NULL) @@ (leaf :> root)

L(obj, fn, capture) == [type |-> type, obj |-> obj, fn |-> fn, capture |-> capture]
FourListeners == {L(x, f, FALSE), L(y, f, FALSE), L(x, g, FALSE), L(x, f, TRUE)}

(* Three text nodes around another child; a character may combine, or be    *)
(* wide.                                                                    *)
Widths == (plain :> 1) @@ (acute :> 0) @@ (wide :> 2)
Edits  == {<<plain>>, <<plain, acute>>, <<wide>>}
Offsets == -1 .. 2

T == INSTANCE Chardata
X == INSTANCE Expatls WITH exception <- error, ret <- loaded

ASSUME T!ChardataAssumption /\ X!ExpatlsAssumption

-----------------------------------------------------------------------------
MCInit == /\ Init \/ (part \in {"chardata", "expatls"} /\ Start)
          /\ T!Init /\ X!Init

Nodes    == Next /\ UNCHANGED <<textVars, loadVars>>
Chardata == part = "chardata" /\ T!Next /\ UNCHANGED <<vars, loadVars>>
Expatls  == part = "expatls" /\ X!Next /\ UNCHANGED <<vars, textVars>>

MCSpec == MCInit /\ [][Nodes \/ Chardata \/ Expatls]_<<vars, textVars, loadVars>>

-----------------------------------------------------------------------------
(* Elements are alike, and so are events.                                   *)
Sym == Permutations({e1, e2})

(* What a later step or a property can read.  No call asks which nodes are  *)
(* marked or what their common parent is, but to decide the next ones, or   *)
(* for the last answer of dispatchEvent, as preventDefault is; DOM_Exception *)
(* of Events is only looked at in the step that sets it; text nodes are     *)
(* alike, and a free one is nothing; and of a load that has met an error,   *)
(* which DOM_Exception keeps and silent remembers, no property reads the    *)
(* tree.                                                                    *)
View ==
  CASE part = "dom"        -> <<part, [dom EXCEPT !.commonParent = NULL, !.marked = {}]>>
    [] part = "events"     -> <<part, listeners, parent, stack, lost, ops,
                                [ev \in Evts |-> <<evt[ev].type, evt[ev].bubbles, evt[ev].sp>>]>>
    [] part = "attributes" -> <<part, entries, map, name, value, owner, torn, failed>>
    [] part = "chardata"   -> <<part, exception,
                                [i \in DOMAIN kids |-> IF kids[i] \in Texts
                                                       THEN <<data[kids[i]], len[kids[i]]>>
                                                       ELSE kids[i]]>>
    [] part = "expatls"    -> <<part, cdata, error, path, silent, loaded,
                                IF error \/ silent
                                THEN <<Len(log), X!Logged("element"), X!Logged("doctype")>>
                                ELSE <<nodes, stk, log>>>>

-----------------------------------------------------------------------------
(* The length kept beside the data of a text node stays right in every call *)
(* on a node without wide characters, is never too small, and splitting and *)
(* joining nodes keeps the text.                                            *)
TextsRight == [][part = "chardata" => T!LengthRight']_textVars /\ T!LengthKept /\ T!ContentKept

(* The stack holds what is open; a load that succeeds gives the tree of the *)
(* document, and what is stored of that is the document again.              *)
LoadRight == part = "expatls" => X!StackIsPath /\ X!LoadRight /\ X!StoreRight
=============================================================================
