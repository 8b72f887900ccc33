---------------------------- MODULE MCSightings -----------------------------
\* One vehicle, whose plate is also read with an O for its 0.
EXTENDS Sightings, TLC

CONSTANTS ab0, abO

MCCorrected == [r \in Raw |-> ab0]
MCStripped == [r \in Raw |-> r]
=============================================================================
