---------------------------- MODULE MCExtractAll ----------------------------
(***************************************************************************)
(* Instances of ExtractAll for TLC, and the mutations of it that show its  *)
(* properties can fail.                                                    *)
(***************************************************************************)
EXTENDS ExtractAll

\* Every extractor of the instance walks the transaction stream or none: the
\* change stream is fixed, so that it does not multiply the states.
OneStreamInit ==
    Init /\ items["changes"] = 0 /\ ending["changes"] = "eof"

OneStreamSpec == OneStreamInit /\ [][Next]_vars
=============================================================================
