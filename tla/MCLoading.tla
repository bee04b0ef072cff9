------------------------------ MODULE MCLoading ------------------------------
(* A small instance of Loading for TLC.                                    *)
EXTENDS Loading
=============================================================================
