------------------------------ MODULE Manifest ------------------------------
(***************************************************************************)
(* The choice of an image in the server's manifest (n3_ota_artifact_select *)
(* and its callers of ffp5cs): a cascade of four nodes, then the top level *)
(* of the document, for the firmware, the file system image and the digest *)
(* that the downloaded firmware is checked with.  A field is known here by *)
(* the place it is read from.                                              *)
(***************************************************************************)
EXTENDS Naturals, Sequences

CONSTANTS Envs, Models   \* channels of the manifest, boards it serves

VARIABLES doc,     \* the manifest: the fields that each place carries itself
          board,   \* the channel and the model of this board
          out      \* what a check reads: places, "none" without one
mvars == <<doc, board, out>>

Places == (Envs \cup {"prod"}) \X (Models \cup {"default"})
Top == <<"top", "top">>
None == <<"none", "none">>
Contents == {{}, {"url"}, {"url", "digest"}, {"digest"}, {"fs"}, {"url", "digest", "fs"}}

Nothing == [firmware |-> None, version |-> None, fs |-> None, digest |-> None]

\* channels[env][model], [env][default], [prod][model], [prod][default]
Cascade(b) == <<<<b.env, b.model>>, <<b.env, "default">>, <<"prod", b.model>>, <<"prod", "default">>>>

Present(d, p) == "node" \in d[p]

\* A field of a node, or that of the top level when it has none.
Field(d, p, f) == IF f \in d[p] THEN p ELSE IF f \in d[Top] THEN Top ELSE None

FirstOf(s, Test(_)) ==
    LET hits == {i \in DOMAIN s : Test(s[i])}
    IN  IF hits = {} THEN None ELSE s[CHOOSE i \in hits : \A j \in hits : i <= j]

\* tryFillFrom, tryFillFsFrom: a node is taken when it, or the top level, has the address.
Taken(d, b, f) == FirstOf(Cascade(b), LAMBDA p : Present(d, p) /\ Field(d, p, f) # None)

\* selectArtifact: the top level alone is taken only with a version.
selectArtifact(d, b) ==
    LET node == Taken(d, b, "url")
    IN  IF node # None THEN [url |-> Field(d, node, "url"), version |-> Field(d, node, "version")]
        ELSE IF {"url", "version"} \subseteq d[Top] THEN [url |-> Top, version |-> Top]
        ELSE [url |-> None, version |-> None]

selectFilesystem(d, b) ==
    LET node == Taken(d, b, "fs")
    IN  IF node # None THEN Field(d, node, "fs") ELSE IF "fs" \in d[Top] THEN Top ELSE None

\* readIntegrityFields: the first node with an address of its own.
readIntegrityFields(d, b) ==
    LET node == FirstOf(Cascade(b), LAMBDA p : Present(d, p) /\ "url" \in d[p])
    IN  IF node # None THEN Field(d, node, "digest") ELSE Field(d, Top, "digest")

Init ==
    /\ board \in [env : Envs, model : Models]
    /\ \E nodes \in [Places -> {{}} \cup {{"node"} \cup c : c \in Contents}],
          top \in {{}, {"url"}, {"url", "version"}, {"url", "version", "digest", "fs"}} :
         doc = [p \in Places \cup {Top} |-> IF p = Top THEN top ELSE nodes[p]]
    /\ out = Nothing

\* checkForUpdate reads the firmware and its digest, performUpdate's task the file system.
Check ==
    /\ out = Nothing
    /\ LET a == selectArtifact(doc, board)
       IN  out' = [firmware |-> a.url, version |-> a.version, fs |-> selectFilesystem(doc, board),
                   digest |-> IF a.url = None THEN None ELSE readIntegrityFields(doc, board)]
    /\ out' # Nothing
    /\ UNCHANGED <<doc, board>>

Next == Check
Spec == Init /\ [][Next]_mvars
-----------------------------------------------------------------------------
\* A firmware whose address is a node's own is checked with the digest of that
\* node, or with that of the top level when the node has none: never with the
\* digest of another board or channel, which would refuse every download.
DigestOfNode == out.firmware \notin {None, Top} => out.digest \in {out.firmware, Top, None}

=============================================================================
