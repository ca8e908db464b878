------------------------------ MODULE Expatls -------------------------------
(***************************************************************************)
(* Loading and storing XML (domc's src/expatls.c).  Expat reads a document *)
(* and calls a function for every piece of it; the functions share a stack *)
(* on which the node lies whose children are being read, and an error code *)
(* that makes all of them return at once, save those that pop the stack.   *)
(*                                                                         *)
(* Expat is the environment: it goes through any well formed document, and *)
(* one step is one call.  Every call may find no memory.                   *)
(*                                                                         *)
(* A definition X_slip is a mistake that X could contain; no behaviour of  *)
(* the model uses it.                                                      *)
(***************************************************************************)
EXTENDS Integers, SequencesExt

CONSTANTS Chars,    \* kinds of characters in the document: plain, lt, amp
          Pieces,   \* what the document may have besides elements and text
          Memory,   \* whether malloc may give memory, and whether it may not
          MaxStack, \* the limit of the stack
          MaxCalls  \* model bound: pieces of the document

ExpatlsAssumption ==
         /\ Chars \subseteq {"plain", "lt", "amp"}
         /\ Pieces \subseteq {"doctype", "entity", "notation", "comment", "pi", "cdata"}
         /\ Memory \subseteq BOOLEAN /\ TRUE \in Memory
         /\ MaxStack \in Nat \ {0} /\ MaxCalls \in Nat

(* A node is its kind, its value and its parent; the document has number 0, *)
(* and children are appended, so the children of a node are in the order of *)
(* their numbers.  What has not got a place in the tree has parent -1.      *)
VARIABLES
  nodes,     \* the nodes made
  stk,       \* ud->stk, of numbers of nodes
  cdata,     \* ud->cdata
  exception, \* DOM_Exception # 0
  path,      \* expat: the kinds of what is open
  log,       \* auxiliary: the pieces that expat found
  silent,    \* auxiliary: a call failed and set no exception
  ret        \* what DOM_DocumentLS_fread returned

vars == <<nodes, stk, cdata, exception, path, log, silent, ret>>

Init == /\ nodes = <<>> /\ stk = <<0>>
        /\ cdata = FALSE /\ exception = FALSE
        /\ path = <<"document">> /\ log = <<>>
        /\ silent = FALSE /\ ret = "running"

Piece(k, v)   == [kind |-> k, value |-> v]
Node(k, v, p) == [kind |-> k, value |-> v, parent |-> p]

Kind(n) == IF n = 0 THEN "document" ELSE nodes[n].kind
Kids(p) == SelectSeq([i \in DOMAIN nodes |-> i], LAMBDA i : nodes[i].parent = p)
Has(p, k) == \E i \in DOMAIN nodes : nodes[i].parent = p /\ nodes[i].kind = k
Logged(k) == \E i \in DOMAIN log : log[i].kind = k

-----------------------------------------------------------------------------
(* What the callbacks do.                                                   *)
Peek == IF stk = <<>> THEN -1 ELSE Last(stk)
Popped == IF stk = <<>> THEN stk ELSE Front(stk)

(* child_matrix, and the document's one element.                            *)
MayHave(p, k) ==
  CASE Kind(p) = "document" -> \/ k \in {"doctype", "comment", "pi"}
                               \/ k = "element" /\ ~Has(0, "element")
    [] Kind(p) = "doctype"  -> k \in {"entity", "notation"}
    [] Kind(p) = "element"  -> k \in {"element", "text", "cdata", "comment", "pi"}
    [] OTHER                -> FALSE

(* Expat finds a piece of the document.                                     *)
Reads(k, v) == /\ ret = "running" /\ Len(log) < MaxCalls
               /\ log' = Append(log, Piece(k, v))
               /\ UNCHANGED ret

Ignored == exception /\ UNCHANGED <<nodes, stk, cdata, exception, silent>>

Error == /\ exception' = TRUE
         /\ UNCHANGED <<nodes, stk, cdata, silent>>

Silently == /\ silent' = TRUE
            /\ UNCHANGED <<nodes, stk, cdata, exception>>

(* A node without children is made and appended to the node on the stack.   *)
(* Where mbsdup copies a name for it, the failure of mbsdup sets no error.  *)
Leaf(k, v, dups) ==
  \/ Ignored
  \/ /\ ~exception
     /\ \/ Peek = -1 /\ Error
        \/ Peek # -1 /\ FALSE \in Memory /\ Error
        \/ Peek # -1 /\ FALSE \in Memory /\ dups /\ Silently
        \/ Peek # -1 /\ ~MayHave(Peek, k) /\ Error
        \/ /\ Peek # -1 /\ MayHave(Peek, k)
           /\ nodes' = Append(nodes, Node(k, v, Peek))
           /\ UNCHANGED <<stk, cdata, exception, silent>>

(* A node is made, appended and pushed.  It may be left in the tree without *)
(* being pushed, when its attributes or the stack cannot be extended.       *)
Pushed_slip(n) == Append(Popped, n)

Pushed(n) == Append(stk, n)

Parent(k, v, dups) ==
  LET n == Len(nodes) + 1 IN
  \/ Ignored
  \/ /\ ~exception
     /\ \/ Peek = -1 /\ Error
        \/ Peek # -1 /\ FALSE \in Memory /\ Error
        \/ Peek # -1 /\ ~MayHave(Peek, k) /\ Error
        \/ /\ Peek # -1 /\ MayHave(Peek, k)
           /\ nodes' = Append(nodes, Node(k, v, Peek))
           /\ UNCHANGED cdata
           /\ \/ /\ Len(stk) < MaxStack
                 /\ stk' = Pushed(n) /\ UNCHANGED <<exception, silent>>
              \/ /\ FALSE \in Memory \/ Len(stk) = MaxStack
                 /\ exception' = TRUE /\ UNCHANGED <<stk, silent>>
              \/ /\ FALSE \in Memory /\ dups
                 /\ silent' = TRUE /\ UNCHANGED <<stk, exception>>

(* The handlers of ends pop in any case.  Once it was deep, stack_pop makes *)
(* its array smaller, and where there is no memory for that it pops nothing *)
(* and sets no error.  How large the array is is left out here: any call of *)
(* stack_pop may be that one.                                               *)
Pops == \/ stk' = Popped /\ UNCHANGED silent
        \/ /\ FALSE \in Memory /\ stk # <<>>
           /\ stk' = stk /\ silent' = TRUE

-----------------------------------------------------------------------------
(* What expat finds, in the order in which a document may have it.          *)
Open == Last(path)
Inside(k) == path' = Append(path, k)
Outside == path' = Front(path)

start_fn(v) ==
  /\ Open = "element" \/ (Open = "document" /\ ~Logged("element"))
  /\ Reads("element", v) /\ Inside("element") /\ ~cdata
  /\ Parent("element", v, v # <<>>)

end_fn ==
  /\ Open = "element" /\ ~cdata
  /\ Reads("end", <<>>) /\ Outside
  /\ Pops /\ UNCHANGED <<nodes, cdata, exception>>

chardata_fn(c) ==
  /\ Open = "element"
  /\ Reads(IF cdata THEN "cdata" ELSE "text", <<c>>) /\ UNCHANGED path
  /\ Leaf(IF cdata THEN "cdata" ELSE "text", <<c>>, FALSE)

cdata_start_fn ==
  /\ "cdata" \in Pieces /\ Open = "element" /\ ~cdata /\ ret = "running"
  /\ cdata' = TRUE /\ UNCHANGED <<nodes, stk, exception, path, log, silent, ret>>

cdata_end_fn ==
  /\ cdata /\ ret = "running"
  /\ cdata' = FALSE /\ UNCHANGED <<nodes, stk, exception, path, log, silent, ret>>

comment_fn(c) ==
  /\ "comment" \in Pieces /\ ~cdata
  /\ Reads("comment", <<c>>) /\ UNCHANGED path
  /\ Leaf("comment", <<c>>, FALSE)

processing_fn(c) ==
  /\ "pi" \in Pieces /\ ~cdata
  /\ Reads("pi", <<c>>) /\ UNCHANGED path
  /\ Leaf("pi", <<c>>, TRUE)

(* A doctype has no identifier, that of the system, or both.                *)
Identifiers == {<<>>, <<"system">>, <<"public", "system">>}

doctype_start_fn(v) ==
  /\ "doctype" \in Pieces /\ Open = "document"
  /\ ~Logged("element") /\ ~Logged("doctype")
  /\ Reads("doctype", v) /\ Inside("doctype")
  /\ \/ Parent("doctype", v, FALSE)
     \/ ~exception /\ FALSE \in Memory /\ v # <<>> /\ Silently

doctype_end_fn ==
  /\ Open = "doctype"
  /\ Reads("end", <<>>) /\ Outside
  /\ Pops /\ UNCHANGED <<nodes, cdata, exception>>

Declaration(k) ==     \* entdecl_fn and notationdecl_fn
  /\ k \in Pieces /\ Open = "doctype"
  /\ Reads(k, <<>>) /\ UNCHANGED path
  /\ Leaf(k, <<>>, TRUE)

(* DOM_Element_normalize joins a text node with the one before it, as in    *)
(* Chardata, here in all the tree, whose nodes it visits in their order.    *)
(* The one before is destroyed, whether or not there was memory to insert   *)
(* its text, and after the first failure the other nodes stay as they are.  *)
Elder(ns, i) ==    \* the child before i of the same parent, or 0
  SelectLastInSeq([j \in 1 .. i - 1 |-> ns[j]], LAMBDA n : n.parent = ns[i].parent)

Joins(ns, i) == ns[i].kind = "text" /\ Elder(ns, i) # 0 /\ ns[Elder(ns, i)].kind = "text"

Joined_slip(ns, i, ok) ==
  LET last == Elder(ns, i) IN
  [ns EXCEPT ![last].parent = -1, ![i].value = IF ok THEN @ \o ns[last].value ELSE @]

Joined(ns, i, ok) ==
  LET last == Elder(ns, i) IN
  [ns EXCEPT ![last].parent = -1, ![i].value = IF ok THEN ns[last].value \o @ ELSE @]

Normalized(failing) ==
  FoldLeftDomain(LAMBDA ns, i : IF i > failing \/ ~Joins(ns, i) THEN ns
                                ELSE Joined(ns, i, i # failing), nodes, nodes)

(* The document ends, or the loop over its buffers does: at an error, that  *)
(* of a callback, of expat or of the stream, after which normalize returns  *)
(* at once.                                                                 *)
Complete == path = <<"document">> /\ Logged("element")

Answer == IF Complete /\ ~exception THEN "loaded" ELSE "failed"

fread_returns ==
  /\ ret = "running"
  /\ ret' = Answer
  /\ \/ /\ exception \/ ~Complete
        /\ exception' = TRUE /\ UNCHANGED nodes
     \/ /\ ~exception /\ Complete
        /\ nodes' = Normalized(Len(nodes) + 1) /\ UNCHANGED exception
     \/ /\ ~exception /\ Complete /\ FALSE \in Memory
        /\ \E failing \in DOMAIN nodes :
             Joins(nodes, failing) /\ nodes' = Normalized(failing)
        /\ exception' = TRUE
  /\ UNCHANGED <<stk, cdata, path, log, silent>>

Next == \/ \E v \in {<<>>} \cup {<<c>> : c \in Chars} : start_fn(v)
        \/ end_fn
        \/ \E c \in Chars : chardata_fn(c) \/ comment_fn(c) \/ processing_fn(c)
        \/ cdata_start_fn \/ cdata_end_fn
        \/ (\E v \in Identifiers : doctype_start_fn(v)) \/ doctype_end_fn
        \/ \E k \in {"entity", "notation"} : Declaration(k)
        \/ fread_returns

Spec == Init /\ [][Next]_vars
-----------------------------------------------------------------------------
(* DOM_DocumentLS_fwrite: the pieces that a parser finds in what is written *)
(* for a node.  Nothing is written for CDATA sections, for what a doctype   *)
(* contains, and for its public identifier; fputds_encoded writes the       *)
(* reference &lt;, which is read again in text and attributes only, and for *)
(* an ampersand &apos;.                                                     *)
Encoded(c) == IF c = "amp" THEN "apos" ELSE c
AsIs(c)    == IF c = "plain" THEN c ELSE "reference"

Written[n \in 0 .. Len(nodes)] ==
  LET k    == Kind(n)
      each(f(_)) == [i \in DOMAIN nodes[n].value |-> f(nodes[n].value[i])]
      kids == FlattenSeq([i \in DOMAIN Kids(n) |-> Written[Kids(n)[i]]])
  IN  CASE k = "document" -> kids
        [] k = "element"  -> <<Piece(k, each(Encoded))>> \o kids \o <<Piece("end", <<>>)>>
        [] k = "text"     -> <<Piece(k, each(Encoded))>>
        [] k \in {"comment", "pi"} -> <<Piece(k, each(AsIs))>>
        [] k = "doctype"  -> <<Piece(k, SelectSeq(nodes[n].value, LAMBDA id : id = "system")),
                               Piece("end", <<>>)>>
        [] OTHER          -> <<>>

(* What a document is, read off its tree.                                   *)
Content[n \in 0 .. Len(nodes)] ==
  LET kids == FlattenSeq([i \in DOMAIN Kids(n) |-> Content[Kids(n)[i]]])
  IN  IF n = 0 THEN kids
      ELSE IF Kind(n) \in {"element", "doctype"}
           THEN <<Piece(Kind(n), nodes[n].value)>> \o kids \o <<Piece("end", <<>>)>>
           ELSE <<Piece(Kind(n), nodes[n].value)>>

(* As long as no call failed, the stack holds what expat has open: a node   *)
(* is never appended to an element that has ended, or to none.              *)
StackIsPath == ~exception /\ ~silent => /\ Len(stk) = Len(path)
                                        /\ \A i \in DOMAIN stk : Kind(stk[i]) = path[i]

(* The document that expat read, with the characters of a text in one piece.*)
Document ==
  FoldLeft(LAMBDA s, p : IF s # <<>> /\ p.kind = "text" /\ Last(s).kind = "text"
                         THEN Append(Front(s), Piece("text", Last(s).value \o p.value))
                         ELSE Append(s, p), <<>>, log)

(* When DOM_DocumentLS_fread returns 0 and DOM_Exception is not set, the    *)
(* tree is that of the document, element by element and piece by piece, in  *)
(* order and with its texts joined, unless a failure of mbsdup or stack_pop *)
(* went unnoticed.                                                          *)
LoadRight == ret = "loaded" /\ ~exception /\ ~silent => Content[0] = Document

(* DOM_Document.html:117, "returns 0 if complete XML document was           *)
(* successfully read": who gets 0 has the document.  Not when normalize     *)
(* finds no memory, nor after an unnoticed failure; in no run.              *)
ZeroIsLoaded == ret = "loaded" => Content[0] = Document

(* "builds a DOM tree from the complete well formed XML document": where    *)
(* there is memory enough, what expat reads to its end is loaded.           *)
LoadsWellFormed == [][fread_returns /\ Complete => ret' = "loaded"]_vars

(* A document is stored as it was loaded, piece by piece, when it has none  *)
(* of what the code loses: CDATA sections, declarations in a doctype,       *)
(* public identifiers, ampersands, and a reference where a parser does not  *)
(* look for any.                                                            *)
Survives(piece) ==
  /\ piece.kind \notin {"cdata", "entity", "notation"}
  /\ Range(piece.value) \cap {"amp", "public"} = {}
  /\ "lt" \in Range(piece.value) => piece.kind \in {"element", "text"}

StoreRight == /\ ret = "loaded" /\ ~exception /\ ~silent
              /\ \A i \in DOMAIN log : Survives(log[i])
              => Written[0] = Document
=============================================================================
