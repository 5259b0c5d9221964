---------------------------- MODULE StorageConfig ----------------------------
(***************************************************************************)
(* How the environment selects the storage strategy and its credentials:   *)
(* createCacheStorage, its two resolvers, and the check of main.ts that    *)
(* eviction is for the filesystem.  Pure functions of the environment.     *)
(*                                                                         *)
(* What a variable holds is abstracted to what the code tells apart: unset, *)
(* set to the empty string, or set.  Region, endpoint, project and session *)
(* token decide nothing here and are left out.                             *)
(***************************************************************************)

Setting == {"unset", "blank", "set"}

(* JavaScript truth: the empty string counts as absent.                    *)
Given(setting) == setting \notin {"unset", "blank"}

(* GCS_CREDENTIALS: "account" is the JSON of a service account; the others *)
(* fail JSON.parse, are no object, or lack client_email or private_key.    *)
GcsCredentials == {"unset", "blank", "notjson", "notobject", "partial", "account"}

(* Bun.env at startup.  "other" is any unknown STORAGE_STRATEGY, the empty *)
(* string too; CACHE_LIMITS says if CACHE_MAX_BYTES or CACHE_TTL_HOURS is  *)
(* set; CACHE_DIR says if the probe of the directory succeeds.             *)
Env == [ STORAGE_STRATEGY : {"unset", "filesystem", "s3", "gcs", "other"},
         S3_BUCKET : Setting, S3_ACCESS_KEY_ID : Setting,
         S3_SECRET_ACCESS_KEY : Setting,
         GCS_BUCKET : Setting, GCS_KEY_FILENAME : Setting,
         GCS_CREDENTIALS : GcsCredentials,
         CACHE_DIR : {"usable", "unusable"}, CACHE_LIMITS : BOOLEAN ]

(* What a start comes to: no server, or one with these credentials.        *)
S3Modes == {"static", "chain"}
GcsModes == {"keyfile", "json", "ambient"}
Mode == {"refused", "filesystem"} \cup S3Modes \cup GcsModes

(* Mutant: half a key pair falls back to the provider chain.               *)
resolveS3Config_Lenient(env) ==
    CASE ~Given(env.S3_BUCKET) -> "refused"
      [] Given(env.S3_BUCKET) /\ Given(env.S3_ACCESS_KEY_ID)
            /\ Given(env.S3_SECRET_ACCESS_KEY) -> "static"
      [] OTHER -> "chain"

resolveS3Config(env) ==
    LET accessKeyId == Given(env.S3_ACCESS_KEY_ID)
        secretAccessKey == Given(env.S3_SECRET_ACCESS_KEY)
    IN CASE ~Given(env.S3_BUCKET) \/ accessKeyId # secretAccessKey -> "refused"
         [] Given(env.S3_BUCKET) /\ accessKeyId /\ secretAccessKey -> "static"
         [] OTHER -> "chain"

resolveGcsConfig(env) ==
    LET keyFilename == Given(env.GCS_KEY_FILENAME)
        credentials == Given(env.GCS_CREDENTIALS)
    IN CASE ~Given(env.GCS_BUCKET) \/ (keyFilename /\ credentials) -> "refused"
         [] Given(env.GCS_BUCKET) /\ keyFilename /\ ~credentials -> "keyfile"
         [] Given(env.GCS_BUCKET) /\ ~keyFilename /\ credentials ->
               IF env.GCS_CREDENTIALS = "account" THEN "json" ELSE "refused"
         [] OTHER -> "ambient"

(* STORAGE_STRATEGY ?? 'filesystem': only an unset variable has a default. *)
createCacheStorage(env) ==
    CASE env.STORAGE_STRATEGY = "s3" -> resolveS3Config(env)
      [] env.STORAGE_STRATEGY = "gcs" -> resolveGcsConfig(env)
      [] env.STORAGE_STRATEGY \in {"filesystem", "unset"} ->
            IF env.CACHE_DIR = "usable" THEN "filesystem" ELSE "refused"
      [] OTHER -> "refused"

(* main.ts exits when limits are set for a store it cannot sweep.          *)
Started(env) ==
    LET storage == createCacheStorage(env)
    IN IF env.CACHE_LIMITS /\ storage # "filesystem" THEN "refused" ELSE storage
=============================================================================
