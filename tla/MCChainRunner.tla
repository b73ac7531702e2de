----------------------------- MODULE MCChainRunner -----------------------------
(***************************************************************************)
(* Small worlds for ChainRunner: two or three links, one of them in two    *)
(* spellings, a hub script that mentions them, a loader that carries its   *)
(* payload, a page that is not Lua.                                        *)
(***************************************************************************)
EXTENDS ChainRunner, TLC

CONSTANTS a, b, c, d, hub, loader, payload, page, empty

link(n) == [name |-> n, spelling |-> "plain"]
MCUrls == {link(a), link(b), link(c), link(d), [name |-> a, spelling |-> "upper"]}
MCTexts == {hub, loader, payload, page, empty}
MCNotLua == {page}
MCHasLoadstring == {hub, loader}

use(u, usage) == [url |-> u, usage |-> usage, dynamic |-> FALSE]

MCmentions ==
  [t \in MCTexts |->
     CASE t = hub -> {use(link(a), "placeid"), use(link(b), "placeid"), use(link(d), "table"),
                      use([name |-> a, spelling |-> "upper"], "table"),
                      [url |-> link(c), usage |-> "httpfetch", dynamic |-> TRUE]}
       [] t = loader -> {use(link(a), "loadstring"), use(link(c), "table"),
                         use(link(d), "httpfetch")}
       [] t = payload -> {use(link(c), "varHttpfetch"), use(link(b), "var")}
       [] OTHER -> {}]

MCliterals ==
  [t \in MCTexts |->
     CASE t = loader -> {[text |-> payload, site |-> "assigned"], [text |-> page, site |-> "call"]}
       [] t = hub -> {[text |-> payload, site |-> "other"]}
       [] OTHER -> {}]

best(o, conf, ok) == [best |-> TRUE, output |-> o, confidence |-> conf, ok |-> ok]
nothing == [best |-> FALSE, output |-> empty, confidence |-> 0, ok |-> FALSE]

MCrecover ==
  [t \in MCTexts |->
     CASE t = hub -> {best(hub, 40, TRUE), nothing}
       [] t = loader -> {best(loader, 60, FALSE), best(payload, 90, FALSE)}
       [] t = payload -> {best(payload, 50, TRUE)}
       [] OTHER -> {nothing}]

MCoutputBonus == [t \in MCTexts |-> IF t = payload THEN 10 ELSE 1]

MCEntries == {[url |-> link(a), source |-> NoText], [url |-> NoUrl, source |-> hub],
              [url |-> NoUrl, source |-> page], [url |-> link(b), source |-> loader]}
================================================================================
