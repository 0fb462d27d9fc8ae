----------------------------- MODULE MCDownload -----------------------------
(* A small instance of Download for TLC. *)
EXTENDS Download, TLC

CONSTANTS a, b

TwoDownloads == {a, b}
Sizes == (a :> 1) @@ (b :> 2)
OneTemporary == {a}
=============================================================================
