------------------------------- MODULE MCWeb --------------------------------
EXTENDS Web

MCDuree == <<1, 2, 0>>
=============================================================================
