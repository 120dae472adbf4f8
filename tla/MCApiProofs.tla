---------------------------- MODULE MCApiProofs -----------------------------
(***************************************************************************)
(* MCApi puts the process with its middleware, the catalogue and the order *)
(* history side by side, one part per behaviour, and adds nothing to them: *)
(* each behaves as it does alone.  So what is proved of them holds of the  *)
(* model that the run checks, whatever its constants.                      *)
(***************************************************************************)
EXTENDS MCApi, ApiProofs, ReadingProofs

(* In MCApi the process, the catalogue and the history take steps of their
   own only. *)
THEOREM ApiIsItsParts == MCSpec => ApiSpec /\ CatalogueSpec /\ HistorySpec
<1>1. MCInit => ApiInit /\ CatalogueInit /\ HistoryInit
  BY DEF MCInit
<1>2. [MCNext]_<<part, apiVars, catalogueVars, historyVars>>
        => [ApiNext]_apiVars /\ [CatalogueNext]_catalogueVars /\ [HistoryNext]_historyVars
  BY DEF MCNext, HistoryNext
<1>. QED
  BY <1>1, <1>2, PTL DEF MCSpec, ApiSpec, CatalogueSpec, HistorySpec

(* The process, the catalogue and the history keep their types together. *)
THEOREM PartsTypeCorrect == MCSpec => []PartsTypeOK
BY ApiIsItsParts, PoolIsBounded, CatalogueTypeCorrect, HistoryTypeCorrect, PTL DEF PartsTypeOK
=============================================================================
