-------------------------------- MODULE MCJava --------------------------------
(* Instances for TLC of what stands in for Java and Android around the        *)
(* engine's threads: the references JNI gives out, and beside them the pools  *)
(* of names, the answers of calls and fields, strings and arrays, the streams *)
(* of assets, the properties of the sound output and the threads with their   *)
(* thread-local values.  They share no state, so a behaviour is one of one    *)
(* part, which the first state chooses, and the others stay as they begin.    *)
EXTENDS MCJniRefs

CONSTANTS
  Users,                                        \* the threads of the other parts
  Names, Cut, Limit,                            \* JavaNames
  Sizes, Handles, Fds, Chunks, Skips,           \* JavaStreams
  Attempts,                                     \* AudioProperties
  FakeKeys, Passes, Iterations, MaxGen, Rearms, \* EngineThreads
  PrefKeys, Widths, Heights,                    \* JavaCalls
  UnitBytes, MaxUnits, MaxArray, Starts, Lens, Elements,  \* JavaArrays
  None

VARIABLES
  part,
  entry, count, lookup, gave,                                  \* JavaNames
  h, open, got,                                                \* JavaStreams
  calls, last, ask, at, saw,                                   \* AudioProperties
  screen, told, prefKey, hand, made, stored,                   \* JavaCalls
  units, bytes, array, buf, dup,                               \* JavaArrays
  thread, taken, mains, finished, key, arr, walk, owed         \* EngineThreads

-----------------------------------------------------------------------------
\* Ids that share a name, an object's label that is too long, fills its pool and
\* is kept as a shorter one is, and more strings than their pool has entries.
MCNames == "id" :> {<<"View", "get">>, <<"File", "get">>}
           @@ "object" :> {<<"File">>, <<"Long">>, <<"LongOne">>}
           @@ "string" :> {<<"mounted">>, <<"en">>}
MCCut == [p \in DOMAIN MCNames |->
            [r \in MCNames[p] |-> IF r = <<"LongOne">> THEN <<"Long">> ELSE r]]
MCLimit == "id" :> 2 @@ "object" :> 2 @@ "string" :> 1

\* Two assets of different sizes.
CONSTANTS a1, a2
MCSizes == a1 :> 2 @@ a2 :> 1
MCSkips == -1..2

Naming == INSTANCE JavaNames WITH Threads <- Users, LoneIntern <- TRUE, call <- lookup

Streaming == INSTANCE JavaStreams WITH WithinFile <- TRUE, FdFirst <- TRUE

Sounding == INSTANCE AudioProperties WITH Queries <- 3

\* What the engine asks in more than one way, and what of it is not there.
Asked(by, cls, name, ret, topic) ==
  [by |-> by, cls |-> cls, name |-> name, ret |-> ret, topic |-> topic]
Asks == {
  Asked("object", "android/view/Choreographer", "getInstance", "Choreographer", "frames"),
  Asked("object", "android/os/Environment", "getExternalStorageState", "String", "storage"),
  Asked("object field", "android/os/Environment", "MEDIA_MOUNTED", "String", "storage"),
  Asked("object", "java/lang/Object", "getVersionName", "String", "version"),
  Asked("object field", "android/content/pm/PackageInfo", "versionName", "String", "version"),
  Asked("object", "android/content/Context", "getPackageCodePath", "String", "home"),
  Asked("object", "android/content/Context", "getPackageResourcePath", "String", "home"),
  Asked("object", "java/io/File", "getAbsolutePath", "String", "home"),
  Asked("int", "android/view/Display", "getWidth", "I", "width"),
  Asked("int field", "android/util/DisplayMetrics", "widthPixels", "I", "width"),
  Asked("int field", "com/unity3d/player/UnityPlayer", "widthPixels", "I", "width"),
  Asked("object", "com/android/billing/Plugin", "getNative", "Plugin", "plugin") }
Calling == INSTANCE JavaCalls WITH Keys <- PrefKeys, key <- prefKey

\* Of the parts of text that rules look for, those that are in each text asked with.
RuleTexts == {
  "Choreographer", "SwappyDisplayManager", "getInstance", "net/Uri", "encode", "decode",
  "AssetManager", "ClassLoader", "VersionName", "PackageName", "DeviceModel",
  "ObbMainFileName", "ObbPatchFileName", "AssetPack", "Language", "language",
  "os/Environment", "ExternalStorageState", "Directory", "Locale", "getCountry",
  "getISO3Country", "toString", "getDisplayName", "DataPath", "FilesDir", "ObbDir", "Path",
  "GetEditBoxText", "GetTextBoxText", "getExternalFilesDir", "getPackageResourcePath",
  "UnityPlayer",
  "getPackageInfo", "getApplicationInfo", "getPackageManager", "getResources",
  "getConfiguration", "DisplayManager", "getDisplay", "res/Resources", "getDisplayMetrics",
  "content/Context", "getFilesDir", "getCacheDir", "getDataDir", "getPackageName",
  "getPackageCodePath", "getAssets", "getSystemService", "view/Display",
  "res/Configuration", "DisplayMetrics", "unity3d/player/UnityPlayer",
  "getWidth", "WidthPixels", "getRawWidth", "getHeight", "HeightPixels", "getRawHeight",
  "versionName", "currentActivity", "_SERVICE", "MEDIA_MOUNTED", "os/Build",
  "MODEL", "DEVICE", "PRODUCT", "MANUFACTURER", "BRAND",
  "versionCode", "SDK_INT", "densityDpi", "widthPixels", "heightPixels",
  "getBytes", "java/lang/String", "[B" }
AskTexts == { a.cls : a \in Asks } \cup { a.name : a \in Asks } \cup
  {"java/lang/String", "android/net/Uri", "getBytes", "encode", "([BLjava/lang/String;)V"}
PartsOf(s) ==
  CASE s = "android/view/Choreographer" -> {"Choreographer"}
    [] s = "android/os/Environment" -> {"os/Environment"}
    [] s = "getExternalStorageState" -> {"ExternalStorageState"}
    [] s = "getVersionName" -> {"VersionName"}
    [] s = "android/content/Context" -> {"content/Context"}
    [] s = "getPackageCodePath" -> {"getPackageCodePath", "Path"}
    [] s = "getPackageResourcePath" -> {"getPackageResourcePath", "Path"}
    [] s = "getAbsolutePath" -> {"Path"}
    [] s = "android/view/Display" -> {"view/Display"}
    [] s = "android/util/DisplayMetrics" -> {"DisplayMetrics"}
    [] s = "com/unity3d/player/UnityPlayer" -> {"unity3d/player/UnityPlayer", "UnityPlayer"}
    [] s = "android/net/Uri" -> {"net/Uri"}
    [] s = "([BLjava/lang/String;)V" -> {"[B", "java/lang/String"}
    [] OTHER -> {s} \cap RuleTexts

\* Units of one to three bytes and the zero, regions that begin before the
\* beginning and past the end.
MCUnitBytes == [u \in {"a", "b", "e", "k", "zero"} |->
  CASE u = "zero" -> 0 [] u = "e" -> 2 [] u = "k" -> 3 [] OTHER -> 1]
MCStarts == {-1, 0, 1, 3}
MCLens == {-1, 0, 1, 2, 4}
Keeping == INSTANCE JavaArrays WITH arr <- array

\* A key is deleted only when no thread has a value, and destructors that set
\* values again stop before libnx stops calling them.
Threading == INSTANCE EngineThreads WITH Threads <- Users, DeleteEmpty <- TRUE

ASSUME NamingAssumption == Naming!NamesAssumption
ASSUME StreamingAssumption == Streaming!StreamsAssumption
ASSUME SoundingAssumption == Sounding!PropertiesAssumption
ASSUME CallingAssumption == Calling!CallsAssumption /\ Keeping!ArraysAssumption
ASSUME TextAssumption ==
  \A s \in AskTexts, sub \in RuleTexts : Calling!Has(s, sub) <=> sub \in PartsOf(s)
ASSUME ThreadingAssumption == Threading!ThreadsAssumption /\ Rearms < Iterations

namingVars == <<entry, count, lookup, gave>>
streamingVars == <<h, open, got>>
soundingVars == <<calls, last, ask, at, saw>>
threadingVars == <<thread, taken, mains, finished, key, arr, walk, owed>>
callingVars == <<screen, told, prefKey, hand, made, stored>>
arraysVars == <<units, bytes, array, buf, dup>>
javaVars == <<namingVars, callingVars, arraysVars>>
osVars == <<streamingVars, soundingVars, threadingVars>>
allVars == <<part, vars, javaVars, osVars>>

MCInit ==
  /\ part \in {"references", "naming", "calling", "arrays", "streaming", "sounding", "threading"}
  /\ Init /\ Naming!Init /\ Calling!Init /\ Keeping!Init
  /\ Streaming!Init /\ Sounding!Init /\ Threading!Init
  /\ part = "sounding" \/ ask = [role |-> <<"rate", "frames", "other">>, reach |-> "key"]
  /\ part = "calling" \/ screen.w = 0

MCNext ==
  /\ UNCHANGED part
  /\ \/ /\ part = "references" /\ Next /\ UNCHANGED <<javaVars, osVars>>
     \/ /\ part = "naming" /\ Naming!Next
        /\ UNCHANGED <<vars, callingVars, arraysVars, osVars>>
     \/ /\ part = "calling" /\ Calling!Next
        /\ UNCHANGED <<vars, namingVars, arraysVars, osVars>>
     \/ /\ part = "arrays" /\ Keeping!Next
        /\ UNCHANGED <<vars, namingVars, callingVars, osVars>>
     \/ /\ part = "streaming" /\ Streaming!Next
        /\ UNCHANGED <<vars, javaVars, soundingVars, threadingVars>>
     \/ /\ part = "sounding" /\ Sounding!Next
        /\ UNCHANGED <<vars, javaVars, streamingVars, threadingVars>>
     \/ /\ part = "threading" /\ Threading!Next
        /\ UNCHANGED <<vars, javaVars, streamingVars, soundingVars>>

MCSpec == MCInit /\ [][MCNext]_allVars

-----------------------------------------------------------------------------

\* jni_fake.c, unity_jni.c: a handle stands for one name, a question has one
\* answer however it is asked, strings and arrays are copied inside their
\* bounds, a stream gives the bytes of its own asset, and FMOD is told the rate
\* as the rate.
JavaAnswers ==
  /\ part = "naming" => Naming!TypeOK /\ Naming!NamesOneToOne
  /\ part = "calling" => Calling!TypeOK /\ Calling!AnswersAgree /\ Calling!KeysApart
  /\ part = "arrays" => Keeping!TypeOK /\ Keeping!ArraysExact
  /\ part = "streaming" => Streaming!TypeOK /\ Streaming!StreamsRight
  /\ part = "sounding" => Sounding!TypeOK /\ Sounding!OutputOpens

\* imports.c: every thread-local value is destroyed once, on the way out of its
\* thread, and one thread alone is android_main.
ValuesSound == part = "threading" => Threading!TypeOK /\ Threading!ValuesDestroyedOnce

=============================================================================
