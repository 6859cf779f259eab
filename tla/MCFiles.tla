------------------------------ MODULE MCFiles ------------------------------
(* Instances of what keeps files: one of the gallery, of the streaming of  *)
(* its videos, or of the company profile and its logo is busy, the others  *)
(* stay as they begin.  Of the gallery, an instance sends parts while      *)
(* little else happens, or edits a few media and no parts are sent.        *)
EXTENDS Gallery, Streaming, CompanyProfile, TLC

CONSTANTS video, photo, paper, a1, r1, r2, p1, p2, l1, l2, c1, c2

VARIABLE focus
mcVars == <<galleryVars, streamingVars, profileVars, focus>>

TypeOK == GalleryTypeOK /\ StreamingTypeOK /\ ProfileTypeOK

MCInit ==
  /\ focus \in {"parts", "media", "streaming", "profile"}
  /\ GalleryInit /\ ProfileInit /\ StreamingInit
  /\ focus \notin {"parts", "media"} => albums = {}
  /\ focus # "streaming" => size = 0 /\ server = "gallery"

MCNext ==
  /\ UNCHANGED focus
  /\ \/ /\ focus \in {"parts", "media"}
        /\ GalleryNext /\ UNCHANGED <<streamingVars, profileVars>>
        /\ IF focus = "parts" THEN edits' <= 1 ELSE sends' = 0
     \/ focus = "streaming" /\ StreamingNext /\ UNCHANGED <<galleryVars, profileVars>>
     \/ focus = "profile" /\ ProfileNext /\ UNCHANGED <<galleryVars, streamingVars>>

MCSpec == MCInit /\ [][MCNext]_mcVars /\ GalleryFairness
=============================================================================
