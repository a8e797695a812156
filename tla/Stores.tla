-------------------------------- MODULE Stores --------------------------------
(***************************************************************************)
(* The stores beside the engine and the agents: the skills marketplace,    *)
(* the documents, the personal memory and the OAuth credentials, all       *)
(* behind the same API server, workers and bucket.                         *)
(*                                                                         *)
(* None of them reads or writes what another one keeps, so a property of   *)
(* one depends on the steps of that one alone: a behaviour follows one     *)
(* store, its focus, and leaves the others where they are.                 *)
(***************************************************************************)
EXTENDS Skills, Documents, PersonalMemory, Credentials

VARIABLE focus

storesVars == <<focus, skillVars, docVars, memoryVars, credentialVars>>

StoresInit ==
  /\ focus \in {"skills", "documents", "memory", "credentials"}
  /\ SkillsInit /\ DocumentsInit /\ MemoryInit /\ CredentialsInit
  /\ focus # "credentials" => tells /\ conn.refresh /\ conn.expires # Unknown

StoresNext ==
  /\ UNCHANGED focus
  /\ \/ /\ focus = "skills" /\ SkillsNext
        /\ UNCHANGED <<docVars, memoryVars, credentialVars>>
     \/ /\ focus = "documents" /\ DocumentsNext
        /\ UNCHANGED <<skillVars, memoryVars, credentialVars>>
     \/ /\ focus = "memory" /\ MemoryNext
        /\ UNCHANGED <<skillVars, docVars, credentialVars>>
     \/ /\ focus = "credentials" /\ CredentialsNext
        /\ UNCHANGED <<skillVars, docVars, memoryVars>>

StoresSpec == StoresInit /\ [][StoresNext]_storesVars

-----------------------------------------------------------------------------
StoresTypeOK == SkillsTypeOK /\ DocumentsTypeOK /\ MemoryTypeOK /\ CredentialsTypeOK
=============================================================================
