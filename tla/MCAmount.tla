------------------------------ MODULE MCAmount ------------------------------
(***************************************************************************)
(* Amount over every figure up to 120 and the boundaries of each scale.    *)
(***************************************************************************)
EXTENDS Amount

MCAmounts ==
    (0..120) \cup {199, 200, 499, 500, 999, 1000, 1001, 1100, 1999, 2050, 12000, 12345, 20000,
                   99999, 100000, 100001, 100100, 101000, 110000, 150000, 999999, 1000000,
                   1234567, 2000000, 9900099, 9999999}
=============================================================================
