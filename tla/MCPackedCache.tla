--------------------------- MODULE MCPackedCache ----------------------------
(* base needs padding and has two shards; tuned has the names and the      *)
(* lengths of base; wide needs no padding and fits one shard; extra has a  *)
(* tensor neither its index nor its execution order names, unlisted one    *)
(* the index does not name; renamed lacks one the order names.  The last   *)
(* four do not open: a tensor in both shards, one in another shard than    *)
(* the index says, one that reaches past its file, one without tensors.    *)
EXTENDS ReadAhead, TLC

MCModels == {"base", "tuned", "wide", "extra", "unlisted", "renamed",
             "double", "moved", "short", "empty"}
MCOrder == [m \in MCModels |->
              IF m = "wide" THEN <<"embed", "layer", "layer2", "norm">>
                            ELSE <<"embed", "layer", "norm">>]

Shard(header, size, entries) == [header |-> header, size |-> size, entries |-> entries]
First == Shard(1, 7, "layer" :> <<0, 3>> @@ "embed" :> <<3, 5>>)
Second == Shard(2, 4, "norm" :> <<0, 1>>)
Pair(first, second) == "one" :> first @@ "two" :> second

MCShards == [m \in MCModels |->
  CASE m = "wide" -> "one" :> Shard(1, 7, "embed" :> <<0, 2>> @@ "layer" :> <<2, 3>>
                                          @@ "layer2" :> <<3, 4>> @@ "norm" :> <<4, 5>>)
    [] m = "extra" -> Pair(First, Shard(2, 5, "norm" :> <<0, 1>> @@ "bias" :> <<1, 2>>))
    [] m = "renamed" -> Pair(Shard(1, 7, "block" :> <<0, 3>> @@ "embed" :> <<3, 5>>), Second)
    [] m = "double" -> Pair(First, Shard(2, 7, "norm" :> <<0, 1>> @@ "layer" :> <<1, 4>>))
    [] m = "short" -> Pair([First EXCEPT !.size = 6], Second)
    [] m = "empty" -> Pair(First, Shard(2, 4, <<>>))
    [] OTHER -> Pair(First, Second)]

Listed == "embed" :> "one" @@ "layer" :> "one" @@ "norm" :> "two"
MCIndex == [m \in MCModels |->
  CASE m = "wide" -> [t \in {"embed", "layer", "layer2", "norm"} |-> "one"]
    [] m = "unlisted" -> "embed" :> "one" @@ "norm" :> "two"
    [] m = "renamed" -> "embed" :> "one" @@ "block" :> "one" @@ "norm" :> "two"
    [] m = "moved" -> [Listed EXCEPT !["embed"] = "two"]
    [] OTHER -> Listed]

MCHeaderLength == [m \in MCModels |-> IF m = "wide" THEN 2 ELSE 3]
MCLayerNames == {<<"embed", "layer", "norm">>, <<"layer">>}
=============================================================================
