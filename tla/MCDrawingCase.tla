----------------------------- MODULE MCDrawingCase -----------------------------
(* A small instance of DrawingCase: one candidate and what two reviewers say *)
(* of it.                                                                    *)
EXTENDS DrawingCase
CONSTANTS e1, r1, r2, v1

MCSent ==
    {Confirmation(e1, "ACCEPTED", r1, 1, NoValue, NoValue),
     Confirmation(e1, "REJECTED", r2, 1, NoValue, NoValue)}
================================================================================
