--------------------------- MODULE MCThreadPool ---------------------------
(* Two clients and a pool of two.  a submits a1, which submits a leaf and a  *)
(* job that throws, and a2, a leaf that tries to submit a job.  b submits    *)
(* b1, which submits a leaf that throws, and b2, which throws.               *)
EXTENDS ThreadPool, TLC

CONSTANTS a, b, w, a1, a11, a12, a2, a21, b1, b11, b2

MCSubmits == [t \in Tasks |-> CASE t = a  -> <<a1, a2>>
                                [] t = a1 -> <<a11, a12>>
                                [] t = a2 -> <<a21>>
                                [] t = b  -> <<b1, b2>>
                                [] t = b1 -> <<b11>>
                                [] OTHER  -> <<>>]
=============================================================================
