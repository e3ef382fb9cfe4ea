---------------------------- MODULE FeatureStrip ----------------------------
(***************************************************************************)
(* The Vulkan layer that makes zink accept the closed driver: it reports   *)
(* geometryShader and, with PVR_FAKE_R2, also VK_EXT_robustness2 and its   *)
(* nullDescriptor, and takes them out of what the driver is asked for.     *)
(*                                                                         *)
(* The application queries, creates a device out of what it was told and   *)
(* then reads the structures it passed once more: zink computes its        *)
(* capabilities after vkCreateDevice. The driver below the layer is        *)
(* external: it has none of the three and refuses to enable them. The      *)
(* layer is loaded for PVR_FAKE_GS, but looks at both switches each time.  *)
(***************************************************************************)
EXTENDS Naturals

CONSTANT
  Real        \* how many extensions the driver has, at most

Gs   == "geometryShader"
Null == "nullDescriptor"
Ext  == "VK_EXT_robustness2"

VARIABLES
  pc,         \* what the application does next
  gs, r2,     \* PVR_FAKE_GS and PVR_FAKE_R2 are set, in the environment of the process
  real,       \* how many extensions the driver has
  cap,        \* the room the application gives for the list of extensions
  listed,     \* how many extensions it was given
  partial,    \* it was told that the list is not all of it (VK_INCOMPLETE)
  told,       \* the fakes it was told of
  names,      \* those among the extension names it passes
  legacy,     \* the fakes in its pEnabledFeatures
  chain,      \* the fakes in its chained structures
  want,       \* those it put there for the call under way (history)
  saved,      \* origNull: nullDescriptor, if it was in the chain
  given,      \* the fakes the driver was asked for
  device,     \* the device the layer knows (g_dev), "none" without
  alive       \* the device the driver has, "none" without

stripVars == <<pc, gs, r2, real, cap, listed, partial, told, names, legacy, chain, want, saved,
               given, device, alive>>
env_ == <<gs, r2, real>>
told_ == <<cap, listed, partial, told>>
asked_ == <<names, legacy, chain, want>>
To(from, to) == pc = from /\ pc' = to

FeatureStripInit ==
  /\ pc = "features" /\ gs \in BOOLEAN /\ r2 \in BOOLEAN /\ real \in 0 .. Real
  /\ cap = 0 /\ listed = 0 /\ partial = FALSE
  /\ told = {} /\ names = {} /\ legacy = {} /\ chain = {} /\ want = {} /\ saved = {}
  /\ given = {} /\ device = "none" /\ alive = "none"

\* vkGetPhysicalDeviceFeatures(), ...Features2() and ...Features2KHR(): only a
\* chained structure can report nullDescriptor.
GetFeatures ==
  /\ To("features", "count")
  /\ \E chained \in BOOLEAN :
       told' = {f \in {Gs, Null} : gs /\ (f = Null => r2 /\ chained)}
  /\ UNCHANGED <<env_, cap, listed, partial, asked_, saved, given, device, alive>>

\* vkEnumerateDeviceExtensionProperties() without room: how many there are. The
\* application makes that much room, or less, or more. Only PVR_FAKE_R2 counts here.
Reported == IF r2 THEN real + 1 ELSE real

CountExtensions ==
  /\ To("count", "list")
  /\ cap' \in 0 .. Reported + 1 /\ listed' = 0 /\ partial' = FALSE
  /\ UNCHANGED <<env_, told, asked_, saved, given, device, alive>>

\* With room: the driver's, as many as fit, then the faked one if it still fits.
\* The driver itself reports VK_INCOMPLETE where the layer does not answer.
ListExtensions ==
  LET copied == IF real < cap THEN real ELSE cap
      fits   == r2 /\ copied < cap
  IN /\ To("list", "create")
     /\ listed' = IF fits THEN copied + 1 ELSE copied
     /\ partial' = (~fits /\ Reported > cap)
     /\ told' = IF fits THEN told \cup {Ext} ELSE told
     /\ UNCHANGED <<env_, cap, asked_, saved, given, device, alive>>

-----------------------------------------------------------------------------
\* The application asks for fakes it was told of: for geometryShader in
\* pEnabledFeatures or in a chained structure, not in both.
Ask ==
  /\ To("create", "strip")
  /\ names' \in SUBSET (told \cap {Ext})
  /\ legacy' \in SUBSET (told \cap {Gs})
  /\ chain' \in SUBSET ((told \cap {Gs, Null}) \ legacy') /\ want' = chain'
  /\ UNCHANGED <<env_, told_, saved, given, device, alive>>

\* It may also try again, after a failure, with the structures it still has.
AskAgain ==
  /\ To("create", "strip") /\ names \cup legacy \cup chain # {}
  /\ want' = chain
  /\ UNCHANGED <<env_, told_, names, legacy, chain, saved, given, device, alive>>

\* vkCreateDevice() on the way down. The name is dropped from a copy of the list;
NamesGiven == IF gs /\ r2 THEN names \ {Ext} ELSE names

\* geometryShader is cleared in a copy of pEnabledFeatures;
LegacyGiven == IF gs THEN legacy \ {Gs} ELSE legacy

\* and in the application's own chained structures geometryShader and nullDescriptor.
ChainGiven == chain \ {f \in {Gs, Null} : gs /\ (f = Null => r2)}

Strip ==
  /\ To("strip", "driver")
  /\ chain' = ChainGiven
  /\ saved' = IF gs /\ r2 THEN chain \cap {Null} ELSE {}
  /\ given' = NamesGiven \cup LegacyGiven \cup ChainGiven
  /\ UNCHANGED <<env_, told_, names, legacy, want, device, alive>>

\* The driver creates the device, or fails, also for reasons of its own; it must
\* fail with what it lacks.
DriverCreates ==
  /\ To("driver", "back")
  /\ \/ given = {} /\ alive' = "device"
     \/ UNCHANGED alive
  /\ UNCHANGED <<env_, told_, asked_, saved, given, device>>

\* On the way up: nullDescriptor is put back, geometryShader is not. The device
\* is remembered if there is one.
GiveBack ==
  /\ To("back", IF alive = "none" THEN "create" ELSE "caps")
  /\ chain' = chain \cup saved
  /\ device' = IF alive = "none" THEN device ELSE alive
  /\ UNCHANGED <<env_, told_, names, legacy, want, saved, given, alive>>

\* zink reads its structures again: with geometryShader it would accept quads,
\* draw them through a geometry shader, and the driver would abort.
ReadBack ==
  /\ To("caps", "draw")
  /\ UNCHANGED <<env_, told_, asked_, saved, given, device, alive>>

\* vkDestroyDevice(): the layer forgets its device and calls the driver.
DestroyDevice ==
  /\ To("draw", "features")
  /\ alive' = IF device = "none" THEN alive ELSE "none"
  /\ device' = "none" /\ told' = {} /\ names' = {} /\ legacy' = {} /\ chain' = {}
  /\ want' = {} /\ saved' = {} /\ given' = {}
  /\ UNCHANGED <<env_, cap, listed, partial>>

FeatureStripNext ==
  \/ GetFeatures \/ CountExtensions \/ ListExtensions \/ Ask \/ AskAgain \/ Strip
  \/ DriverCreates \/ GiveBack \/ ReadBack \/ DestroyDevice

FeatureStripSpec == FeatureStripInit /\ [][FeatureStripNext]_stripVars

-----------------------------------------------------------------------------
\* What only the layer reported is stripped "back out of the VkDeviceCreateInfo before
\* forwarding to the real driver at vkCreateDevice, so the blob is never asked to enable
\* a feature it doesn't have" (the layer's README). It takes PVR_FAKE_GS to strip.
NeverAskedForFakes == given = {}

\* "The app's own feature structs are restored to whatever it asked for once the call
\* returns" (the layer's README; "app's real values, restored after" in vkCreateDevice).
RestoredToWhatItAsked == pc \in {"caps", "draw"} => chain = want

\* What a program finds in its chained structures once it has a device is what the
\* device can do: geometryShader is gone from them, also after calls that failed.
NoQuadsThroughGeometryShader == pc \in {"caps", "draw"} => Gs \notin chain
=============================================================================
