----------------------------- MODULE MCCatalog -----------------------------
EXTENDS Catalog

\* A group of nodes only, one that leads to another group, and one with a provider.
MCDefinitions ==
  {[type |-> "select", groups |-> gs, use |-> {}, all |-> FALSE] : gs \in {{ForceDirect}, {"P"}, {"C"}}}
  \cup {[type |-> "select", groups |-> {}, use |-> {"v"}, all |-> FALSE]}

Nothing == [prepend |-> <<>>, delete |-> {}, append |-> <<>>]
Empty   == [rules |-> Nothing, proxies |-> Nothing, groups |-> Nothing, merge |-> <<>>, plain |-> FALSE]

Overlays ==
  {[Empty EXCEPT !.plain = TRUE],
   [Empty EXCEPT !.rules.prepend = <<[match |-> "a", target |-> "REJECT"]>>, !.groups.delete = {"P"}],
   [Empty EXCEPT !.proxies.prepend = <<[name |-> "o", of |-> "overlay"]>>,
                 !.proxies.delete = {"m"}, !.merge = "control" :> "other"],
   [Empty EXCEPT !.groups.append = <<[name |-> "Z", type |-> "select", proxies |-> {"P", "m"},
                                      use |-> {"v"}, all |-> FALSE]>>,
                 !.merge = "providers" :> {"v"}]}

Selection(nodes, gs, orders, overseas, target, overlay) ==
  [kind |-> "clash", nodes |-> nodes, groups |-> gs, orders |-> orders,
   overseas |-> overseas, fallback |-> {ForceOverseas}, rules |-> <<[match |-> "b", target |-> target]>>,
   overlay |-> overlay, head |-> [providers |-> {}, control |-> "own"]]

Plain == [Empty EXCEPT !.plain = TRUE]

\* Selections with the xray node in a group, which only older releases accept,
\* and selections without, which any release accepts.
MCSelections ==
  {Selection(IF gs = <<"P">> THEN <<"x">> ELSE <<"m", "x">>, gs, orders, {"x"}, "P", Plain) :
     gs \in {<<"P">>, <<"P", "C">>}, orders \in {<<>>, "P" :> [explicit |-> TRUE, refs |-> {"x"}]}}
  \cup {Selection(<<"m", "x">>, <<"P", "C">>, "C" :> [explicit |-> FALSE, refs |-> {"m"}],
                  overseas, IF overseas = {"m"} THEN ForceOverseas ELSE "P", overlay) :
          overseas \in {{ForceDirect}, {"m"}}, overlay \in Overlays}
  \cup {[Selection(<<"m", "x">>, <<>>, <<>>, {}, ForceDirect, Plain) EXCEPT !.kind = "links"]}
=============================================================================
