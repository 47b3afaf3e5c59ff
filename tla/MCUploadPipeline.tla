-------------------------- MODULE MCUploadPipeline --------------------------
(***************************************************************************)
(* UploadPipeline for TLC: everything configured, with and without a       *)
(* scanner and a command, and each part of the configuration broken once.  *)
(***************************************************************************)
EXTENDS UploadPipeline

CONSTANT Tess  \* a command the operator set

Complete == [scanning |-> "on", provider |-> TRUE, engine |-> TRUE,
             command |-> Tess]

MCEnvironments ==
    {Complete,
     [Complete EXCEPT !.scanning = "off", !.command = NoCommand],
     [Complete EXCEPT !.scanning = "invalid"],
     [Complete EXCEPT !.provider = FALSE],
     [Complete EXCEPT !.engine = FALSE]}
=============================================================================
