----------------------------- MODULE MCStreamed -----------------------------
(***************************************************************************)
(* Instances of Streamed for TLC: a street with two corners that are close *)
(* to each other, a house, and the origin.                                 *)
(***************************************************************************)
EXTENDS Streamed, TLC

CONSTANTS Ann, Bob

TheSpots   == {"origin", "corner", "street", "house"}
TheOrigin  == "origin"
TheClose   == [t \in Spots |-> CASE t = "corner" -> {"corner", "street"}
                                 [] t = "street" -> {"corner", "street"}
                                 [] OTHER -> {t}]
TheObjects == {"tree", "lamp"}
TheGoods   == {"gun", "bat"}
ThePlain   == {"heart"}
OldMarks   == "gun" :> "gun mark" @@ "bat" :> "bat mark"
NewMarks   == "gun" :> "new mark"
TheDefs    == {"old", "new"}
TheMarks   == [d \in Defs |-> IF d = "old" THEN OldMarks ELSE NewMarks]
TheThings  == TheObjects \cup TheGoods \cup ThePlain
              \cup {"gun mark", "bat mark", "new mark"}
TheDistance ==
  [i \in Things |->
     CASE i = "tree" -> "corner" :> 1 @@ "street" :> 2 @@ "origin" :> 3
       [] i = "lamp" -> "street" :> 1 @@ "corner" :> 1
       [] i \in TheGoods -> "corner" :> 0
       [] i = "heart" -> "house" :> 0
       [] OTHER -> "corner" :> 0 @@ "street" :> 1 @@ "house" :> 2]
TheLook    == [i \in Things |-> CASE i \in {"gun mark", "bat mark"} -> 1
                                  [] i = "heart" -> 2 [] OTHER -> 3]
Config(O, n, d, G, P) ==
  [objects |-> O, limit |-> n, defs |-> d, goods |-> G, plain |-> P]
TheConfigs ==
  {Config({"tree", "lamp"}, 2, "old", {"gun", "bat"}, {"heart"}),
   Config({"lamp"}, 1, "old", {"bat"}, {}),
   Config({"tree", "lamp"}, 1, "new", {"gun", "bat"}, {"heart"})}
TheGoes    == [p \in Players |-> IF p = Bob THEN {"house"} ELSE Spots \ {"house"}]
Two        == {Ann, Bob}
=============================================================================
