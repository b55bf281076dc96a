--------------------------- MODULE ResponseParser ---------------------------
(***************************************************************************)
(* What vlm/response_parser.py makes of a text the VLM has written: the    *)
(* checks of parse_vlm_response in their order, and which exception ends   *)
(* them.  A text is described by what the checks tell apart.               *)
(*                                                                         *)
(* "list" stands for a JSON array or object in the place of a scalar: it   *)
(* is unhashable, so that looking it up in a set raises a TypeError.       *)
(***************************************************************************)
EXTENDS Integers, Sequences, FiniteSetsExt

Scalars == {"text", "blank", "list", "other"}

\* An element of "detections"; id is 0 for what is no positive integer.
Items ==
    [object : BOOLEAN, extra : BOOLEAN, missing : BOOLEAN, id : Nat,
     feature : Scalars, visibility : Scalars \cup {"clear", "unclear"},
     review : Scalars \cup {"bool"}]

ResponseTexts ==
    [empty : BOOLEAN, json : BOOLEAN, object : BOOLEAN, extra : BOOLEAN,
     judgment : Scalars \cup {"OK", "NG", "absent"}, isList : BOOLEAN,
     items : Seq(Items), summary : Scalars \cup {"absent"}]

\* What a check comes to.
Check(passed, otherwise) == IF passed THEN "accepted" ELSE otherwise

\* The checks of a sequence are made one after the other; the first that is
\* not passed raises.
FirstRaised(checks) ==
    LET raised == {k \in DOMAIN checks : checks[k] # "accepted"}
    IN  IF raised = {} THEN "accepted" ELSE checks[Min(raised)]

\* x in {...} for x read from JSON.
Lookup(x, set) == IF x = "list" THEN "TypeError" ELSE Check(x \in set, "invalid")

ItemOutcome(d) ==
    FirstRaised(<<
        Check(d.object, "invalid"),
        Check(~d.extra, "invalid"),
        Check(~d.missing, "invalid"),
        Check(d.id # 0, "invalid"),
        Check(d.feature = "text", "invalid"),
        Lookup(d.visibility, {"clear", "unclear"}),
        Check(d.review = "bool", "invalid") >>)

\* Mutated form of IdsInOrder: the ids may come in any order.
IdsInAnyOrder(items) ==
    {items[k].id : k \in DOMAIN items} = DOMAIN items

\* The ids are 1 .. N in this order.
IdsInOrder(items) == \A k \in DOMAIN items : items[k].id = k

\* parse_vlm_response for n > 0 detections, which expects NG.
ParseVlmResponse(r, n) ==
    FirstRaised(<<
        Check(~r.empty, "invalid"),
        Check(r.json, "invalid_json"),
        Check(r.object, "invalid"),
        Check(~r.extra, "invalid"),
        Lookup(r.judgment, {"OK", "NG"}),
        Check(r.judgment = "NG", "invalid"),
        Check(r.isList, "invalid"),
        Check(Len(r.items) = n, "invalid") >>
      \o [k \in DOMAIN r.items |-> ItemOutcome(r.items[k])]
      \o <<
        Check(IdsInOrder(r.items), "invalid"),
        Check(r.summary = "text", "invalid") >>)

\* parse_response turns a ValueError into a fallback text, not a TypeError.
ParseResponse(r, n) ==
    LET outcome == ParseVlmResponse(r, n)
    IN  CASE outcome = "accepted" -> "success"
          [] outcome = "TypeError" -> "raises"
          [] OTHER -> "fallback"

\* What the schema of response_schema.py and the detections ask of a text, as
\* one condition.
Conforms(r, n) ==
    /\ ~r.empty /\ r.json /\ r.object /\ ~r.extra
    /\ r.judgment = "NG" /\ r.summary = "text" /\ r.isList
    /\ DOMAIN r.items = 1 .. n
    /\ \A k \in 1 .. n :
          /\ r.items[k].object /\ ~r.items[k].extra /\ ~r.items[k].missing
          /\ r.items[k].id = k /\ r.items[k].feature = "text"
          /\ r.items[k].visibility \in {"clear", "unclear"}
          /\ r.items[k].review = "bool"

=============================================================================
