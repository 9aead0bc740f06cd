--------------------------- MODULE IndexCommands ---------------------------
(***************************************************************************)
(* The commands that answer or act from the index alone, and what it takes  *)
(* to open it: the queries over the edges table, the search over the names, *)
(* edit, index compress, the migrations of an old index.  A behaviour is    *)
(* about one of the five.                                                   *)
(***************************************************************************)
EXTENDS GraphQueries, FuzzySearch, SymbolEdit, SignatureCodec, StoreUpgrade

VARIABLE topic   \* which of the five a behaviour is about
vars == <<topic, graphVars, searchVars, editVars, codecVars, upgradeVars>>

\* What a behaviour is not about.
GraphIdle   == edges = {} /\ ask = [job |-> "none"] /\ run = Empty /\ answer = NoAnswer
SearchIdle  == corpus = <<>> /\ quest = [job |-> "none"] /\ scan = Empty /\ hits = NoHits
EditIdle    == disk = <<>> /\ index = <<>> /\ ed = <<>>
CodecIdle   == symbols = <<>> /\ drawers = <<>> /\ folder = <<>> /\ conn = <<>> /\ save = <<>> /\ trail = <<>>
UpgradeIdle == base = <<>> /\ opener = <<>> /\ fate = <<>>

Init ==
  \/ /\ topic = "graph" /\ GraphInit
     /\ SearchIdle /\ EditIdle /\ CodecIdle /\ UpgradeIdle
  \/ /\ topic = "names" /\ SearchInit
     /\ GraphIdle /\ EditIdle /\ CodecIdle /\ UpgradeIdle
  \/ /\ topic = "edit" /\ EditInit
     /\ GraphIdle /\ SearchIdle /\ CodecIdle /\ UpgradeIdle
  \/ /\ topic = "signatures" /\ CodecInit
     /\ GraphIdle /\ SearchIdle /\ EditIdle /\ UpgradeIdle
  \/ /\ topic = "upgrade" /\ UpgradeInit
     /\ GraphIdle /\ SearchIdle /\ EditIdle /\ CodecIdle

Next ==
  /\ UNCHANGED topic
  /\ \/ topic = "graph" /\ GraphNext /\ UNCHANGED <<searchVars, editVars, codecVars, upgradeVars>>
     \/ topic = "names" /\ SearchNext /\ UNCHANGED <<graphVars, editVars, codecVars, upgradeVars>>
     \/ topic = "edit" /\ EditNext /\ UNCHANGED <<graphVars, searchVars, codecVars, upgradeVars>>
     \/ topic = "signatures" /\ CodecNext
        /\ UNCHANGED <<graphVars, searchVars, editVars, upgradeVars>>
     \/ topic = "upgrade" /\ UpgradeNext
        /\ UNCHANGED <<graphVars, searchVars, editVars, codecVars>>

Spec == Init /\ [][Next]_vars

---------------------------------------------------------------------------
(* The properties of SymbolEdit, SignatureCodec and StoreUpgrade, of the    *)
(* behaviours that are about them.                                         *)

\* edit exchanges its symbol's lines and nothing else, and leaves the index as the
\* next edit needs it, unless another process came between (EditIsClean).
CleanEdit == topic = "edit" => EditIsClean

\* A reader never meets half a table, and as long as no table is replaced every
\* signature and drawer body is read as it was written (TableIsWhole, TextsDecode).
SignaturesDecode == topic = "signatures" => TableIsWhole /\ TextsDecode

\* Whoever opens an old index at once, and wherever one dies: the level is true and
\* an open Store has the tables its statements need (LevelIsTrue).
UpgradeIsSafe == topic = "upgrade" => LevelIsTrue
=============================================================================
