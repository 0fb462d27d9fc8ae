---------------------------- MODULE MCPostprocess ----------------------------
(* Small instances of Postprocess for TLC: one model of character 21, its    *)
(* own motion bundle and one of character 22, one score.                     *)
EXTENDS Postprocess, TLC

CONSTANTS m, own, other, score, t1, t2

OneModel == {m}
TwoMotions == {own, other}
OneScore == {score}
OneStorage == {t1}
TwoStorages == {t1, t2}

V2(num, words) == [v2 |-> TRUE, num |-> num, words |-> words]
Plain(words) == [v2 |-> FALSE, num |-> None, words |-> words]

Names == m :> V2(21, <<"miku", "casual">>)
           @@ own :> V2(21, <<"miku", "motion", "base">>)
           @@ other :> V2(22, <<"rin", "motion", "base">>)
Aliases == own :> "miku" @@ other :> "rin"
TwoDocs == m :> {"a.model3", "b.model3"}

\* A new version of the own motion bundle adds a clip; the moc3 of the model
\* stays the same when only a texture changes.
Named(motions) == [motion |-> motions, facial |-> {"smile"}]
ClipTable ==
  own :> (0 :> Named({"idle"}) @@ 1 :> Named({"idle", "wave"}))
    @@ other :> (0 :> Named({"nod"}) @@ 1 :> Named({"nod"}))
Moc3 == m :> (0 :> "moc-a" @@ 1 :> "moc-b")
MocKept == m :> (0 :> "moc-a" @@ 1 :> "moc-a")

\* Paths of the bundles: with a version directory beside the alias, and with
\* two model roots side by side, which no valid index describes.
GoodLayout == m :> << <<"casual">> >> @@ own :> << <<"miku">>, <<"01", "miku">> >>
                @@ other :> << <<"rin">> >>
TwoRoots == [GoodLayout EXCEPT ![m] = << <<"casual">>, <<"formal">> >>]
Colliding == [GoodLayout EXCEPT ![other] = << <<"01", "miku", "rin">> >>]
AllLayouts == {GoodLayout, TwoRoots, Colliding}
OneLayout == {GoodLayout}

Costume(asset, id) == [asset |-> None, live2dAsset |-> asset, c2d |-> id]
Char(id, char, asset) == [id |-> id, char |-> char, asset |-> asset]
TheCostume == Costume(Names[m], "c2d1")

Role(expression) == [char |-> 21, motion |-> "idle", expression |-> expression]

Exact == [roots |-> 1, readable |-> TRUE, malformed |-> FALSE,
          costume2ds |-> {TheCostume}, roles |-> {Role("smile")},
          character2ds |-> {Char("c2d1", 21, Plain(<<"miku">>))}]
\* The row of the model's character names the other character's assets.
Crossed == [Exact EXCEPT !.character2ds =
              {Char("c2d1", 21, Plain(<<"rin">>))}]
\* No costume: only the names relate the model to a character; and a second
\* directory of tables, which matters online.
NamesOnly == [Exact EXCEPT !.costume2ds = {}, !.roots = 2]
\* The two columns of the costume's name disagree.
Disagreeing == [Exact EXCEPT !.costume2ds =
                  {[TheCostume EXCEPT !.asset = Names[own]]}]
AllArchives == {Exact, Crossed, NamesOnly, Disagreeing}
OneArchive == {Exact}

AllModes == {"live2d", "live2d-associated", "charts"}
Config(enabled, forced, temporary, online) ==
  [enabled |-> enabled, forced |-> forced, temporary |-> temporary,
   online |-> online]

\* The associated processor alone never works in a persistent workspace here:
\* AssociatedOnly is that case.
FreshConfigs ==
  {Config(AllModes, FALSE, FALSE, TRUE),
   Config({"live2d-associated"}, TRUE, TRUE, FALSE),
   Config({"live2d", "charts"}, FALSE, TRUE, FALSE)}
AssociatedOnly == {Config({"live2d-associated"}, FALSE, FALSE, FALSE)}
=============================================================================
