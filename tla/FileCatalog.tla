---------------------------- MODULE FileCatalog ----------------------------
(***************************************************************************)
(* What metadata-service promises its callers: files, each with an         *)
(* append-only list of versions.  A version is the call that made it, and  *)
(* its number is its place in the list.  FileService implements this       *)
(* specification; Upload relies on it.                                     *)
(***************************************************************************)
EXTENDS Integers, Sequences, Functions

CONSTANTS
    Files,              \* file ids, each made by one registration
    Calls,              \* the registrations and additions of versions
    FileOf              \* FileOf[r]: the file that r registers or adds to

ASSUME CatalogAssumption == FileOf \in [Calls -> Files]

VARIABLES
    file,               \* files: "absent", "live" or "deleted"
    versions            \* file_versions of each file, by number

catalog == <<file, versions>>

FileStates == {"absent", "live", "deleted"}

CatalogInit ==
    /\ file = [f \in Files |-> "absent"]
    /\ versions = [f \in Files |-> <<>>]

Registered(r) == r \in Range(versions[FileOf[r]])

CreateFile(f) ==
    /\ file[f] = "absent"
    /\ file' = [file EXCEPT ![f] = "live"]
    /\ UNCHANGED versions

\* A call appends once.  The file may have been deleted since it was looked up.
AppendVersion(r) ==
    /\ file[FileOf[r]] # "absent"
    /\ ~Registered(r)
    /\ versions' = [versions EXCEPT ![FileOf[r]] = Append(@, r)]
    /\ UNCHANGED file

SoftDelete(f) ==
    /\ file[f] = "live"
    /\ file' = [file EXCEPT ![f] = "deleted"]
    /\ UNCHANGED versions

CatalogNext ==
    \/ \E f \in Files : CreateFile(f) \/ SoftDelete(f)
    \/ \E r \in Calls : AppendVersion(r)

CatalogSpec == CatalogInit /\ [][CatalogNext]_catalog
=============================================================================
