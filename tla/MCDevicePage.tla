---------------------------- MODULE MCDevicePage ----------------------------
(* A small instance of DevicePage for TLC. *)
EXTENDS DevicePage

\* sections of each kind, and two that are loaded one after the other
MCChains == {<<"ota">>, <<"datetime">>, <<"info", "ap">>}
=============================================================================
