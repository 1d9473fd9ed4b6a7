---- MODULE MCApprovalQueue ----
(* Instances of ApprovalQueue for TLC. *)
EXTENDS ApprovalQueue
====
