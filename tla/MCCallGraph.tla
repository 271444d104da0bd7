---------------------------- MODULE MCCallGraph ----------------------------
(***************************************************************************)
(* Three contracts and the authorizations of one or two entries: nested    *)
(* calls, a call back to the caller, other functions, and one below the    *)
(* limit.  Two functions can be read; of the third, the arguments have     *)
(* the name of another.                                                    *)
(***************************************************************************)
EXTENDS CallGraph

MCFunctions == {"f", "g", "h"}
MCLegible == {"f", "g"}
MCInArguments == [fn \in MCFunctions |-> IF fn = "h" THEN "g" ELSE "unknown"]

N(depth, to, fn) == [depth |-> depth, to |-> to, fn |-> fn]

MCAuthTrees ==
    { << >>,
      << N(1, 1, "f"), N(2, 2, "f"), N(3, 3, "g"), N(4, 2, "f"), N(2, 3, "f") >>,
      << N(1, 2, "g"), N(2, Creation, "unknown"), N(3, 1, "f"), N(1, NotAContract, "f"),
         N(2, 3, "h"), N(3, NotAContract, "f"), N(4, NotAContract, "f") >> }
=============================================================================
