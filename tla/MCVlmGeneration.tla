-------------------------- MODULE MCVlmGeneration --------------------------
\* An instance of VlmGeneration for TLC: texts that deviate in up to two places
\* from one that conforms.
EXTENDS VlmGeneration

Item(k) ==
    [object |-> TRUE, extra |-> FALSE, missing |-> FALSE, id |-> k,
     feature |-> "text", visibility |-> "clear", review |-> "bool"]

Good ==
    [empty |-> FALSE, json |-> TRUE, object |-> TRUE, extra |-> FALSE,
     judgment |-> "NG", isList |-> TRUE, items |-> <<Item(1), Item(2)>>,
     summary |-> "text"]

MCItems(k) ==
    {[Item(k) EXCEPT !.id = i, !.visibility = v] :
        i \in 0 .. 3, v \in {"clear", "unclear", "list"}}
    \cup {[Item(k) EXCEPT !.feature = "blank"], [Item(k) EXCEPT !.review = "other"],
          [Item(k) EXCEPT !.object = FALSE], [Item(k) EXCEPT !.extra = TRUE],
          [Item(k) EXCEPT !.missing = TRUE]}

MCItemLists ==
    {<<a, Item(2)>> : a \in MCItems(1)} \cup {<<Item(1), a>> : a \in MCItems(2)}
    \cup {<<>>, <<Item(1)>>, <<Item(2), Item(1)>>, <<Item(1), Item(2), Item(3)>>}

MCRoots ==
    {Good, [Good EXCEPT !.empty = TRUE, !.json = FALSE], [Good EXCEPT !.json = FALSE],
     [Good EXCEPT !.object = FALSE], [Good EXCEPT !.extra = TRUE],
     [Good EXCEPT !.summary = "blank"]}
    \cup {[Good EXCEPT !.judgment = j] : j \in {"OK", "list", "absent"}}

MCReplies ==
    MCRoots \cup {[Good EXCEPT !.isList = FALSE, !.items = <<>>]}
    \cup {[root EXCEPT !.items[2].visibility = "list"] : root \in MCRoots}
    \cup {[Good EXCEPT !.items = items] : items \in MCItemLists}
=============================================================================
