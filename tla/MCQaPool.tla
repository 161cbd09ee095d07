------------------------------- MODULE MCQaPool -------------------------------
(* Small instances of QaPool: a pool of two slots.                          *)
EXTENDS QaPool

CONSTANTS d1, d2, e1, e2

MCPool == <<d1, d2>>
=============================================================================
