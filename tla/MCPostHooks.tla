---------------------------- MODULE MCPostHooks ----------------------------
(* The hooks over configurations that differ in what a stage asks of them. *)
EXTENDS PostHooks

MCSettings ==
    {Switch, Switch \ {"geojson", "avreportTable", "airportTable"}, {"cot", "geojson", "geojsonFile"}}
=============================================================================
