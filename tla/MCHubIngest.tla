---------------------------- MODULE MCHubIngest -----------------------------
(* An instance of HubIngest with two crowds.                               *)
EXTENDS HubIngest, TLC

\* On connection "A": two bridge posts of one call (HubClient mints an event
\* id per post), an adapter that repeats its own envelope, one that reuses the
\* adapter's id under another key and one that reuses its key.
Mixed == {"bridge", "adapter", "sameId", "sameKey"}
\* Two connections whose adapters both use key "k1"; the right one posts
\* something malformed.
Two == {"left", "right"}

Calls == Mixed \cup Two
Crowds == {Mixed, Two}
Clocks == (Mixed :> 0) @@ (Two :> 2)
Conns == [c \in Mixed |-> "A"] @@ "left" :> "B" @@ "right" :> "C"
Keys == "bridge" :> "k1" @@ "adapter" :> "k2" @@ "sameId" :> "k3" @@ "sameKey" :> "k2"
        @@ [c \in Two |-> "k1"]
Bodies == "bridge" :> "b1" @@ "adapter" :> "b2" @@ "sameId" :> "b2" @@ "sameKey" :> "b3"
          @@ "left" :> "b4" @@ "right" :> "b5"
Uuid(c, n) ==
  CASE c = "bridge" -> <<c, n>>
    [] c = "sameKey" -> <<"own", 2>>
    [] c \in {"adapter", "sameId"} -> <<"own", 1>>
    [] OTHER -> <<c, 1>>
Uuids == {Uuid(c, n) : c \in Calls, n \in 1..3}
Posts == "bridge" :> 2 @@ "left" :> 3 @@ [c \in Calls |-> 1]
=============================================================================
