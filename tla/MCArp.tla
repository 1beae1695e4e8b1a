------------------------------- MODULE MCArp --------------------------------
(* Two entries for three hosts: entries must be recycled.                  *)
EXTENDS Arp

CONSTANTS h1, h2, h3
=============================================================================
