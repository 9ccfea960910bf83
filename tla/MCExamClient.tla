---------------------------- MODULE MCExamClient ----------------------------
(* Instance of ExamClient for TLC. *)
EXTENDS ExamClient
=============================================================================
