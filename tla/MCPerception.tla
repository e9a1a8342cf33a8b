---------------------------- MODULE MCPerception ----------------------------
EXTENDS Perception

\* The rival starts in a corner, so that its walk can leave the start behind.
MCCopStart == <<0, 0>>
MCThiefStart == <<GridSize - 1, GridSize - 1>>
=============================================================================
