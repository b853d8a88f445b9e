------------------------ MODULE MCExtensionAdapter ------------------------
(* The instance of ExtensionAdapter that TLC checks. *)
EXTENDS ExtensionAdapter
=============================================================================
