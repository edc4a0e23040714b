----------------------------- MODULE MCRegistry -----------------------------
(***************************************************************************)
(* One plug in the Kasa cloud, with two ingestion runs that may overlap;   *)
(* and, where delta syncs are alone the question, a lamp of MyQ.           *)
(***************************************************************************)
EXTENDS Registry, TLC

Plug == "plug" :> "kasa"
PlugKind == "plug" :> "plug"

Lamp == "lamp" :> "myq"
LampKind == "lamp" :> "lamp"
=============================================================================
