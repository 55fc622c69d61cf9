--------------------------- MODULE MCTokenPipeline ---------------------------
(* Instances of TokenPipeline for TLC. *)
EXTENDS TokenPipeline, TLC

CONSTANTS m1, m2, m3, f1, f2, s1, s2, s3, k1, k2, k3, d1

NoFaults == {}

\* "a " is "a" with a blank that clean removes.
Texts == {"a", "b", "c", "a "}
CleanTexts == [t \in Texts |-> IF t = "a " THEN "a" ELSE t]

Token(image, ipfs, name, ticker) ==
    [image |-> image, ipfs |-> ipfs, description |-> None,
     name |-> name, ticker |-> ticker]

OneMint == {m1}
ThreeMints == {m1, m2, m3}
\* Two tokens that share their image and, but for a blank, their name; and one
\* that resembles neither.
Copies == m1 :> Token("a", "a", "a ", "a") @@ m2 :> Token("a", "b", "a", "b")
       @@ m3 :> Token("c", "c", "c", "c")
Lone == m1 :> Token("a", "a", "a", "a")

AllCommunities == {k1, k2, k3}
OneDev == {d1}
SameCreator == k1 :> d1 @@ k2 :> d1 @@ k3 :> d1
OwnCommunities == m1 :> k1 @@ m2 :> k2 @@ m3 :> k3
LoneCommunity == m1 :> k1

OneFast == {f1}
TwoFast == {f1, f2}
OneSlow == {s1}
ThreeSlow == {s1, s2, s3}
\* The analysis feed reports m1 on both of its subscriptions.
FirstTwice == f1 :> m1 @@ f2 :> m2 @@ s1 :> m1 @@ s2 :> m2 @@ s3 :> m1
LoneToken == f1 :> m1 @@ s1 :> m1

\* The two jobs on m1 are interchangeable.
Reports == Permutations({s1, s3})

\* The table has a row of an earlier run, or none.
OldToken == m3 :> 3
NoToken == [m \in {} |-> 0]

NoCaps == m1 :> {}
HighCap == m1 :> {3} @@ m2 :> {} @@ m3 :> {}
=============================================================================
