----------------------------- MODULE LookupViews -----------------------------
(* What the web app shows of the things it looks up for a token: an        *)
(* indicator (CyberView) and an airfield (AirfieldView).  They share no    *)
(* state, and each is as free to move as it is alone.                      *)
EXTENDS CyberView, AirfieldView

LookupsSpec == CyberViewSpec /\ AirfieldSpec

(* What the card over an indicator claims its panel claims too, and the    *)
(* panel leads only where it may (CyberHover.tsx, CyberPanel.tsx); card,   *)
(* panel and map of an airfield show the one asked for, at the one place   *)
(* the server gave (AirportPanel.tsx, airport.ts).                         *)
CardAndPanelAgree == IndicatorIsTheOneAsked /\ AirfieldIsTheOneAsked
=============================================================================
