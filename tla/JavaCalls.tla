------------------------------ MODULE JavaCalls -------------------------------
(* jni_fake.c, unity_jni.c: how the call of a Java method and the read of a   *)
(* Java field are answered.  There is no Java: an answer is found by the      *)
(* first rule that takes the class, the name and the result's type, all of    *)
(* them matched by a part of the text.  The engine asks for the same thing in *)
(* several ways, and it makes the keys of its preferences by a chain of       *)
(* calls, each of which gets what the one before it answered.                 *)
EXTENDS Naturals, Sequences, FiniteSets

CONSTANTS
  Asks,      \* what the engine asks, once or more: [by, cls, name, ret, topic]
  Keys,      \* the keys of its preferences, "" among them
  Widths,    \* screen_width and screen_height, 0 before they are known
  Heights

CallsAssumption ==
  /\ \A a \in Asks : a.by \in {"object", "int", "object field", "int field"}
  /\ "" \in Keys /\ Widths \cup Heights \subseteq Nat

VARIABLES
  screen,    \* [w, h]
  told,      \* what the engine was told on each topic
  key, hand, \* the key it is making, and what it got last
  made,      \* the calls of the chain that are done
  stored     \* the keys stored, each with the key it was made from

vars == <<screen, told, key, hand, made, stored>>

Null == [kind |-> "null", of |-> ""]
Lost == [kind |-> "lost", of |-> ""]        \* an argument that does not arrive
Text(s) == [kind |-> "text", of |-> s]
Bytes(s) == [kind |-> "bytes", of |-> s]
Object(c) == [kind |-> "object", of |-> c]
Number(n) == [kind |-> "number", of |-> n]

-----------------------------------------------------------------------------
\* The rules: a part of the class, of the name, the type of the result; {} and
\* "" take everything.

Has(s, sub) == \E i \in 0..(Len(s) - Len(sub)) : SubSeq(s, i + 1, i + Len(sub)) = sub
Rule(classes, names, ret, answer) ==
  [classes |-> classes, names |-> names, ret |-> ret, answer |-> answer]

Takes(r, id) ==
  /\ r.classes = {} \/ \E s \in r.classes : Has(id.cls, s)
  /\ r.names = {} \/ \E s \in r.names : Has(id.name, s)
  /\ r.ret \in {"", id.ret}
Answered(rules, id, otherwise) ==
  LET T == { i \in DOMAIN rules : Takes(rules[i], id) }
  IN IF T = {} THEN otherwise ELSE rules[CHOOSE i \in T : \A j \in T : i <= j].answer

(* act_object, for the classes that unity_jni.c does not own.                *)
ActivityNoUri(id, arg) ==            \* mutant: no rule for Uri.encode
  Answered(<<Rule({}, {}, "String", Text(""))>>, id, Object(id.cls))
ActivityRules(arg) == <<
  Rule({"Choreographer", "SwappyDisplayManager"}, {"getInstance"}, "", Null),
  Rule({"Choreographer", "SwappyDisplayManager"}, {}, "Choreographer", Null),
  Rule({"net/Uri"}, {"encode", "decode"}, "", arg),
  Rule({}, {"AssetManager"}, "", Object("AssetManager")),
  Rule({}, {}, "AssetManager", Object("AssetManager")),
  Rule({}, {"ClassLoader"}, "", Object("ClassLoader")),
  Rule({}, {}, "ClassLoader", Object("ClassLoader")),
  Rule({}, {}, "Class", Object("java/lang/Object")),
  Rule({}, {"VersionName"}, "", Text("version")),
  Rule({}, {"PackageName"}, "", Text("package")),
  Rule({}, {"DeviceModel"}, "", Text("Switch")),
  Rule({}, {"ObbMainFileName", "ObbPatchFileName", "AssetPack"}, "", Text("archive")),
  Rule({}, {"Language", "language"}, "", Text("en")),
  Rule({"os/Environment"}, {"ExternalStorageState"}, "", Text("mounted")),
  Rule({"os/Environment"}, {"Directory"}, "", Object("java/io/File")),
  Rule({"Locale"}, {"getCountry"}, "", Text("US")),
  Rule({"Locale"}, {"getISO3Country"}, "", Text("USA")),
  Rule({"Locale"}, {"toString", "getDisplayName"}, "", Text("en_US")),
  Rule({}, {"DataPath", "FilesDir", "ObbDir", "Path"}, "", Text("home")),
  Rule({}, {"GetEditBoxText", "GetTextBoxText"}, "", Text("typed")),
  Rule({}, {"getPackageInfo"}, "", Object("PackageInfo")),
  Rule({}, {"getApplicationInfo"}, "", Object("ApplicationInfo")),
  Rule({}, {"getPackageManager"}, "", Object("PackageManager")),
  Rule({}, {"getResources"}, "", Object("Resources")),
  Rule({}, {"getConfiguration"}, "", Object("Configuration")),
  Rule({}, {}, "String", Text("")) >>
Activity(id, arg) == Answered(ActivityRules(arg), id, Object(id.cls))

(* unity_owns_class, and unity_dispatch_object without the assets, which     *)
(* JavaStreams has, and the preferences, which Prefs has.                    *)
Owned(cls) == \E s \in {"view/Display", "DisplayManager", "res/Configuration", "res/Resources",
    "DisplayMetrics", "content/Context", "unity3d/player/UnityPlayer"} : Has(cls, s)
HostRules == <<
  Rule({"DisplayManager"}, {"getDisplay"}, "", Object("Display")),
  Rule({"res/Resources"}, {"getConfiguration"}, "", Object("Configuration")),
  Rule({"res/Resources"}, {"getDisplayMetrics"}, "", Object("DisplayMetrics")),
  Rule({"res/Resources"}, {}, "", Object("Resources")),
  Rule({"content/Context"}, {"getFilesDir", "getCacheDir", "getDataDir", "getExternalFilesDir"}, "",
       Object("File")),
  Rule({"content/Context"}, {"getPackageName"}, "", Text("package")),
  Rule({"content/Context"}, {"getPackageCodePath", "getPackageResourcePath"}, "", Text("home")),
  Rule({"content/Context"}, {"getAssets"}, "", Object("AssetManager")),
  Rule({"content/Context"}, {"getResources"}, "", Object("Resources")),
  Rule({"content/Context"}, {"getSystemService"}, "", Object("Service")),
  Rule({"content/Context"}, {}, "", Object("Context")),
  Rule({"UnityPlayer"}, {}, "", Object("UnityPlayer")) >>
Host(id) == Answered(HostRules, id, Object(id.cls))

(* dispatch_object: a String gives its own bytes, and what returns a Bitmap  *)
(* is text drawn by a renderer that is not there.                            *)
CallObject(recv, id, arg) ==
  IF recv.kind = "text" /\ Has(id.name, "getBytes") THEN Bytes(recv.of)
  ELSE IF Owned(id.cls) THEN Host(id)
  ELSE IF id.ret = "Bitmap" THEN Null ELSE Activity(id, arg)

(* The A variant gets an array of arguments, which goes no further; only the *)
(* calls that are lost without it read it.                                   *)
CallObjectA(recv, id, arg) ==
  IF Has(id.cls, "net/Uri") /\ (Has(id.name, "encode") \/ Has(id.name, "decode")) THEN arg
  ELSE CallObject(recv, id, Lost)
Call(form, recv, id, arg) ==
  IF form = "A" THEN CallObjectA(recv, id, arg) ELSE CallObject(recv, id, arg)

NewObject(cls, sig, first) ==
  IF Has(cls, "java/lang/String") /\ Has(sig, "[B")
  THEN Text(IF first.kind = "bytes" THEN first.of ELSE "") ELSE Object(cls)

(* Integers: what a part of the port must look like to the game, the screen  *)
(* as it was set up, 0 for the rest.                                         *)
Width == IF screen.w > 0 THEN screen.w ELSE 720
Height == IF screen.h > 0 THEN screen.h ELSE 1280
ScreenRules == <<
  Rule({"view/Display", "DisplayMetrics", "DisplayManager"},
       {"getWidth", "WidthPixels", "getRawWidth"}, "", Width),
  Rule({"view/Display", "DisplayMetrics", "DisplayManager"},
       {"getHeight", "HeightPixels", "getRawHeight"}, "", Height) >>
StoreRules == <<Rule({}, {"playCoreApiMissing", "isGooglePlayServicesAvailable"}, "", 1)>>
CallInt(id) == Number(Answered(IF Owned(id.cls) THEN ScreenRules ELSE StoreRules, id, 0))

-----------------------------------------------------------------------------
\* Fields are found by their whole names, which here no other name contains.

FieldRules == <<
  Rule({}, {"versionName"}, "", Text("version")),
  Rule({"unity3d/player/UnityPlayer"}, {"currentActivity"}, "", Object("android/app/Activity")),
  Rule({"content/Context"}, {"_SERVICE"}, "", Text("service")),
  Rule({"os/Environment"}, {"MEDIA_MOUNTED"}, "", Text("mounted")),
  Rule({"os/Build"}, {"MODEL", "DEVICE", "PRODUCT"}, "", Text("Switch")),
  Rule({"os/Build"}, {"MANUFACTURER", "BRAND"}, "", Text("Nintendo")),
  Rule({}, {}, "String", Text("")) >>
ObjectField(id) == Answered(FieldRules, id, Null)

ReportDpi == (2 * (IF screen.w > 0 THEN screen.w ELSE 720) * 160 + 360) \div 720
MetricRules ==
  LET metrics == {"unity3d/player/UnityPlayer", "DisplayMetrics"} IN <<
  Rule({}, {"versionCode"}, "", 22),
  Rule({"unity3d/player/UnityPlayer", "os/Build"}, {"SDK_INT"}, "", 33),
  Rule(metrics, {"densityDpi"}, "", ReportDpi),
  Rule(metrics, {"widthPixels"}, "", Width),
  Rule(metrics, {"heightPixels"}, "", Height) >>
IntField(id) == Number(Answered(MetricRules, id, 0))

-----------------------------------------------------------------------------
Init ==
  /\ screen \in [w : Widths, h : Heights]
  /\ told = [t \in { a.topic : a \in Asks } |-> {}]
  /\ key = "" /\ hand = Null /\ made = "stored" /\ stored = {}

Ask(a) ==
  /\ told' = [told EXCEPT ![a.topic] = @ \cup
       {CASE a.by = "object" -> CallObject(Object(a.cls), a, Lost)
          [] a.by = "int" -> CallInt(a)
          [] a.by = "object field" -> ObjectField(a)
          [] a.by = "int field" -> IntField(a)}]
  /\ UNCHANGED <<screen, key, hand, made, stored>>

(* key.getBytes(), new String(bytes), Uri.encode(string), put(key, value).   *)
Step(from, to, got) ==
  /\ made = from /\ made' = to /\ hand' = got
  /\ UNCHANGED <<screen, told, key, stored>>
Begin(k) ==
  /\ made = "stored" /\ made' = "named"
  /\ key' = k /\ hand' = Text(k)
  /\ UNCHANGED <<screen, told, stored>>
GetBytes(form, cls) ==
  Step("named", "bytes", Call(form, hand, [cls |-> cls, name |-> "getBytes", ret |-> "[B"], Lost))
NewString == Step("bytes", "string", NewObject("java/lang/String", "([BLjava/lang/String;)V", hand))
Encode(form) == Step("string", "encoded",
  Call(form, Null, [cls |-> "android/net/Uri", name |-> "encode", ret |-> "String"], hand))
Store ==
  /\ made = "encoded" /\ made' = "stored"
  /\ stored' = IF hand.kind = "text" /\ hand.of # "" THEN stored \cup {<<hand.of, key>>} ELSE stored
  /\ UNCHANGED <<screen, told, key, hand>>

Next ==
  \/ \E a \in Asks : Ask(a)
  \/ \E k \in Keys : Begin(k)
  \/ \E form \in {"V", "A"} :
       Encode(form) \/ \E cls \in {"java/lang/String", "java/lang/Object"} : GetBytes(form, cls)
  \/ NewString \/ Store

Spec == Init /\ [][Next]_vars

TypeOK ==
  /\ screen \in [w : Widths, h : Heights] /\ key \in Keys
  /\ \A t \in DOMAIN told : \A a \in told[t] : a.kind \in {"null", "text", "object", "number"}

(* Whichever way the engine asks, it is told one thing: the size of the      *)
(* screen, the version, where the storage is and that it is mounted; and the *)
(* one thing it is told is not there is the pacing of frames by Android.     *)
AnswersAgree == \A t \in DOMAIN told :
  /\ Cardinality(told[t]) <= 1
  /\ Null \in told[t] => t = "frames"

(* A preference is stored under the key the engine began with, whichever     *)
(* form of the calls it took, and none under the empty key.                  *)
KeysApart ==
  /\ \A p \in stored : p[1] = p[2]
  /\ made = "stored" /\ key # "" => <<key, key>> \in stored
=============================================================================
