---------------------------- MODULE StartupProofs ----------------------------
(***************************************************************************)
(* Proofs about all launches: what is on the disk, and what the two files  *)
(* mean, for every archive, every content of the files and every number of *)
(* faults.                                                                 *)
(***************************************************************************)
EXTENDS Startup, FoldFacts

----------------------------------------------------------------------------
(* Combos.                                                                 *)

ModNames == {"ctrl", "alt", "shift", "win"}
MainKeys == {75, 77, 79, 81, 116, 32}

LEMMA Names ==
    /\ \A p \in DOMAIN NameToMod : NameToMod[p] \in ModNames
    /\ \A p \in DOMAIN NameToVk : NameToVk[p] \in MainKeys
    /\ \A g \in ModNames : ModVk[g] \in Nat /\ ModBit(ModVk[g]) = g
    /\ \A k \in MainKeys : k \in Nat /\ k # NoKey /\ ModBit(k) = "none"
<1>1. \A p \in DOMAIN NameToMod : NameToMod[p] \in ModNames
  BY DEF NameToMod, ModNames
<1>2. \A p \in DOMAIN NameToVk : NameToVk[p] \in MainKeys
  BY DEF NameToVk, MainKeys
<1>3. \A g \in ModNames : ModVk[g] \in Nat /\ ModBit(ModVk[g]) = g
  BY DEF ModVk, ModBit, ModNames
<1>4. \A k \in MainKeys : k \in Nat /\ k # NoKey /\ ModBit(k) = "none"
  BY DEF MainKeys, NoKey, ModBit
<1> QED
  BY <1>1, <1>2, <1>3, <1>4

LEMMA ComboTyped ==
    ASSUME NEW T, NEW parts \in Seq(T)
    PROVE  /\ ParseCombo(parts).mods \subseteq ModNames
           /\ ParseCombo(parts).key \in MainKeys \union {NoKey}
<1> DEFINE I == {i \in 1..Len(parts) : parts[i] \in DOMAIN NameToVk}
<1>1. ParseCombo(parts).mods \subseteq ModNames
  BY Names DEF ParseCombo
<1>2. ParseCombo(parts).key = IF I = {} THEN NoKey ELSE NameToVk[parts[Max(I)]]
  <2>1. SelectLastInSeq(parts, LAMBDA p : p \in DOMAIN NameToVk) = IF I # {} THEN Max(I) ELSE 0
    BY DEF SelectLastInSeq
  <2>2. I # {} => Max(I) \in I /\ Max(I) # 0
    <3>1. Len(parts) \in Nat /\ I \subseteq 1..Len(parts)
      OBVIOUS
    <3>2. I # {} => Max(I) \in I
      BY <3>1, LargestIn
    <3> QED
      BY <3>1, <3>2
  <2> QED
    BY <2>1, <2>2 DEF ParseCombo
<1>3. I # {} => Max(I) \in I
  <2>1. Len(parts) \in Nat /\ I \subseteq 1..Len(parts)
    OBVIOUS
  <2> QED
    BY <2>1, LargestIn
<1>4. ParseCombo(parts).key \in MainKeys \union {NoKey}
  BY <1>2, <1>3, Names
<1> QED
  BY <1>1, <1>4

\* A binding is the modifiers in their order, and then the key.
LEMMA BindingTyped ==
    ASSUME NEW T, NEW parts \in Seq(T), ParseCombo(parts).mods # {}
    PROVE  \E b \in Seq(Nat) : BindingFromCombo(parts) = {b} /\ BindingModsKey(b) = ParseCombo(parts)
<1> DEFINE c == ParseCombo(parts)
           held == KeepIn(ModOrder, c.mods)
           H == [i \in DOMAIN held |-> ModVk[held[i]]]
           b == H \o (IF c.key = NoKey THEN <<>> ELSE <<c.key>>)
<1>1. /\ c.mods \subseteq ModNames /\ c.key \in MainKeys \union {NoKey}
      /\ c = [mods |-> c.mods, key |-> c.key]
  <2>1. c = [mods |-> c.mods, key |-> c.key]
    BY DEF ParseCombo
  <2> QED
    BY <2>1, ComboTyped
<1>2. held \in Seq(ModNames) /\ ToSet(held) = c.mods
  <2>1. ModOrder \in Seq(ModNames)
    BY DEF ModOrder, ModNames
  <2>2. ToSet(ModOrder) = ModNames
    <3>1. Len(ModOrder) = 4 /\ ModOrder[1] = "ctrl" /\ ModOrder[2] = "alt" /\ ModOrder[3] = "shift"
          /\ ModOrder[4] = "win" /\ DOMAIN ModOrder = {1, 2, 3, 4}
      BY DEF ModOrder
    <3> QED
      BY <3>1 DEF ToSet, ModNames
  <2>3. \A S : KeepIn(ModOrder, S) \in Seq(ModNames) /\ ToSet(KeepIn(ModOrder, S)) = ModNames \cap S
    BY <2>1, <2>2, KeepsMembers
  <2> HIDE DEF c
  <2> QED
    BY <1>1, <2>3
<1>3. BindingFromCombo(parts) = {b}
  BY DEF BindingFromCombo
<1> HIDE DEF c, held
<1>4. /\ H \in Seq(Nat) /\ Len(H) = Len(held) /\ DOMAIN H = 1..Len(H) /\ Len(H) \in Nat
      /\ \A i \in 1..Len(H) : ModBit(H[i]) = held[i] /\ held[i] \in ModNames
  BY <1>2, Names
<1>5. {ModBit(H[i]) : i \in 1..Len(H)} = c.mods
  BY <1>2, <1>4 DEF ToSet
<1> HIDE DEF H
<1>6. "none" \notin ModNames
  BY DEF ModNames
<1>7. CASE c.key = NoKey
  <2>1. b = H
    BY <1>4, <1>7
  <2>2. {ModBit(H[i]) : i \in DOMAIN H} \ {"none"} = c.mods
    BY <1>1, <1>4, <1>5, <1>6
  <2>3. {i \in 1..Len(H) : ModBit(H[i]) = "none"} = {}
    BY <1>4, <1>6
  <2>4. BindingModsKey(H) = [mods |-> c.mods, key |-> NoKey]
    BY <2>2, <2>3 DEF BindingModsKey, SelectLastInSeq
  <2> QED
    BY <1>1, <1>3, <1>4, <1>7, <2>1, <2>4 DEF c
<1>8. CASE c.key # NoKey
  <2> DEFINE n == Len(H)
             I == {i \in 1..Len(b) : ModBit(b[i]) = "none"}
  <2>0. c.key \in Nat /\ ModBit(c.key) = "none"
    BY <1>1, <1>8, Names
  <2>1. /\ b \in Seq(Nat) /\ Len(b) = n + 1 /\ DOMAIN b = 1..(n + 1) /\ b[n + 1] = c.key
        /\ \A i \in 1..n : b[i] = H[i]
    BY <1>4, <1>8, <2>0
  <2> HIDE DEF b
  <2>2. I = {n + 1}
    <3>1. \A i \in 1..(n + 1) : i \in 1..n \/ i = n + 1
      BY <1>4
    <3>2. n + 1 \in 1..Len(b)
      BY <1>4, <2>1
    <3> QED
      BY <1>4, <1>6, <2>0, <2>1, <3>1, <3>2
  <2>3. Max(I) = n + 1
    <3>1. {n + 1} \subseteq 1..(n + 1) /\ n + 1 \in Nat
      BY <1>4
    <3> QED
      BY <2>2, <3>1, LargestIs
  <2>4. {ModBit(b[i]) : i \in DOMAIN b} \ {"none"} = c.mods
    <3>1. {ModBit(b[i]) : i \in DOMAIN b} = {ModBit(H[i]) : i \in 1..n} \union {"none"}
      <4>1. \A i \in DOMAIN b : i \in 1..n \/ i = n + 1
        BY <1>4, <2>1
      <4>2. \A i \in 1..n : i \in DOMAIN b
        BY <1>4, <2>1
      <4>3. n + 1 \in DOMAIN b
        BY <1>4, <2>1
      <4> QED
        BY <2>0, <2>1, <4>1, <4>2, <4>3
    <3> QED
      BY <1>1, <1>5, <1>6, <3>1
  <2>5. SelectLastInSeq(b, LAMBDA k : ModBit(k) = "none") = n + 1
    BY <2>2, <2>3 DEF SelectLastInSeq
  <2>6. n + 1 # 0
    BY <1>4
  <2>7. BindingModsKey(b) = [mods |-> c.mods, key |-> c.key]
    BY <2>1, <2>4, <2>5, <2>6 DEF BindingModsKey
  <2> QED
    BY <1>1, <1>3, <2>1, <2>7 DEF c, b
<1> QED
  BY <1>7, <1>8

----------------------------------------------------------------------------
(* hotkeys.toml, line by line.                                             *)

HotkeySlots == {"ptt", "cycle_mode", "cycle_style", "quit"}
HotkeyTable == [HotkeySlots -> SUBSET Seq(Nat)]
FileLine == [key : STRING, val : Seq(STRING)]

LEMMA BindingsTyped == \A T : \A parts \in Seq(T) : BindingFromCombo(parts) \in SUBSET Seq(Nat)
<1> SUFFICES ASSUME NEW T, NEW parts \in Seq(T) PROVE BindingFromCombo(parts) \in SUBSET Seq(Nat)
  OBVIOUS
<1>1. CASE ParseCombo(parts).mods = {}
  BY <1>1 DEF BindingFromCombo
<1>2. CASE ParseCombo(parts).mods # {}
  BY <1>2, BindingTyped
<1> QED
  BY <1>1, <1>2

LEMMA HotkeysTyped ==
    DefaultHotkeys \in HotkeyTable /\ \A hk \in HotkeyTable, l \in FileLine : HotkeyLine(hk, l) \in HotkeyTable
<1>1. DefaultHotkeys \in HotkeyTable
  <2>1. \A T : \A i, j, k \in T : <<i, j>> \in Seq(T) /\ <<i, j, k>> \in Seq(T)
    OBVIOUS
  <2>2. \A i, j, k : /\ BindingFromCombo(<<i, j>>) \in SUBSET Seq(Nat)
                     /\ BindingFromCombo(<<i, j, k>>) \in SUBSET Seq(Nat)
    <3> SUFFICES ASSUME NEW i, NEW j, NEW k
                 PROVE  /\ BindingFromCombo(<<i, j>>) \in SUBSET Seq(Nat)
                        /\ BindingFromCombo(<<i, j, k>>) \in SUBSET Seq(Nat)
      OBVIOUS
    <3>1. i \in {i, j, k} /\ j \in {i, j, k} /\ k \in {i, j, k}
      OBVIOUS
    <3>2. <<i, j>> \in Seq({i, j, k}) /\ <<i, j, k>> \in Seq({i, j, k})
      BY <2>1, <3>1
    <3> QED
      BY <3>2, BindingsTyped
  <2>3. \A S : \A p, m, o, q \in S :
            [ptt |-> p, cycle_mode |-> m, cycle_style |-> o, quit |-> q] \in [HotkeySlots -> S]
    BY DEF HotkeySlots
  <2> QED
    BY <2>2, <2>3, Zenon DEF DefaultHotkeys, HotkeyTable
<1>2. ASSUME NEW hk \in HotkeyTable, NEW l \in FileLine PROVE HotkeyLine(hk, l) \in HotkeyTable
  <2>1. CASE l.key \notin DOMAIN SlotOf
    BY <2>1 DEF HotkeyLine
  <2>2. CASE l.key \in DOMAIN SlotOf
    <3> DEFINE s == SlotOf[l.key]
               v == IF s # "ptt" THEN SetChord(hk[s], l.val)
                    ELSE IF BindingFromCombo(l.val) = {} THEN hk[s] ELSE BindingFromCombo(l.val)
    <3>1. s \in HotkeySlots /\ hk[s] \in SUBSET Seq(Nat)
      BY <2>2 DEF SlotOf, HotkeySlots, HotkeyTable
    <3>2. BindingFromCombo(l.val) \in SUBSET Seq(Nat)
      BY BindingsTyped DEF FileLine
    <3>3. v \in SUBSET Seq(Nat)
      BY <3>1, <3>2 DEF SetChord
    <3>4. HotkeyLine(hk, l) = [hk EXCEPT ![s] = v]
      BY <2>2 DEF HotkeyLine
    <3> HIDE DEF s, v
    <3> QED
      BY <3>1, <3>3, <3>4 DEF HotkeyTable
  <2> QED
    BY <2>1, <2>2
<1> QED
  BY <1>1, <1>2

HotkeysTraced(g, s) ==
    /\ g[0] = DefaultHotkeys /\ g[Len(s)] = LoadHotkeys(s) /\ LoadHotkeys(s) \in HotkeyTable
    /\ \A k \in 1..Len(s) : g[k] = HotkeyLine(g[k - 1], s[k])

LEMMA HotkeysTrace == \A s \in Seq(FileLine) : \E g : HotkeysTraced(g, s)
<1> SUFFICES ASSUME NEW s \in Seq(FileLine) PROVE \E g : HotkeysTraced(g, s)
  OBVIOUS
<1> DEFINE n == Len(s)
           X == HotkeyTable
           G == [p \in X \X (1..n) |-> HotkeyLine(p[1], s[p[2]])]
           Step(it) == [t \in SUBSET (1..n) |->
                           IF t = {} THEN DefaultHotkeys ELSE HotkeyLine(it[t \ {Max(t)}], s[Max(t)])]
           table == CHOOSE it : it = Step(it)
<1>1. n \in Nat /\ DOMAIN s = 1..n /\ \A k \in 1..n : s[k] \in FileLine
  OBVIOUS
<1>3. LoadHotkeys(s) = table[1..n]
  BY <1>1 DEF LoadHotkeys, FoldLeft, MapThenFoldSet
<1>t. DefaultHotkeys \in X /\ \A x \in X, e \in FileLine : HotkeyLine(x, e) \in X
  BY HotkeysTyped
<1> HIDE DEF X
<1>2. IsStep(G, X, DefaultHotkeys, n)
  BY <1>1, <1>t DEF IsStep
<1>4. \A x \in X, k \in 1..n : G[<<x, k>>] = HotkeyLine(x, s[k])
  OBVIOUS
<1> HIDE DEF G, n
<1>5. PICK it : IsTable(it, G, X, DefaultHotkeys, n)
  BY <1>2, Table
<1>6. it = Step(it)
  BY <1>4, <1>5 DEF IsTable
<1>7. table = Step(table)
  BY <1>6
<1> HIDE DEF table
<1>8. Tabulates(table, G, X, DefaultHotkeys, n)
  BY <1>4, <1>7 DEF Tabulates
<1>9. PICK g : IsTrace(g, G, X, DefaultHotkeys, n) /\ g[n] = table[1..n]
  BY <1>2, <1>8, TableTrace
<1>10. \A k \in 1..n : k - 1 \in 0..n
  BY <1>1
<1>11. ASSUME NEW k \in 1..n PROVE g[k] = HotkeyLine(g[k - 1], s[k])
  <2>1. g[k - 1] \in X /\ g[k] = G[<<g[k - 1], k>>]
    BY <1>9, <1>10 DEF IsTrace
  <2> QED
    BY <1>4, <2>1
<1>12. g[0] = DefaultHotkeys /\ g[n] \in X
  BY <1>1, <1>9 DEF IsTrace
<1> QED
  BY <1>3, <1>9, <1>11, <1>12 DEF n, X, HotkeysTraced

LEMMA HotkeysSnoc ==
    /\ LoadHotkeys(<<>>) = DefaultHotkeys /\ DefaultHotkeys \in HotkeyTable
    /\ \A s \in Seq(FileLine), e \in FileLine : LoadHotkeys(s) \in HotkeyTable
          /\ LoadHotkeys(Append(s, e)) = HotkeyLine(LoadHotkeys(s), e)
<1>1. LoadHotkeys(<<>>) = DefaultHotkeys /\ DefaultHotkeys \in HotkeyTable
  <2>1. <<>> \in Seq(FileLine) /\ Len(<<>>) = 0
    OBVIOUS
  <2>2. PICK f : HotkeysTraced(f, <<>>)
    BY <2>1, HotkeysTrace
  <2> QED
    BY <2>1, <2>2, HotkeysTyped DEF HotkeysTraced
<1>2. ASSUME NEW s \in Seq(FileLine), NEW e \in FileLine
      PROVE  LoadHotkeys(s) \in HotkeyTable /\ LoadHotkeys(Append(s, e)) = HotkeyLine(LoadHotkeys(s), e)
  <2> DEFINE u == Append(s, e)
             n == Len(s)
  <2>1. /\ u \in Seq(FileLine) /\ n \in Nat /\ Len(u) = n + 1 /\ u[n + 1] = e
        /\ \A k \in 1..n : u[k] = s[k]
    BY Extended
  <2>2. PICK g : HotkeysTraced(g, s)
    BY HotkeysTrace
  <2> HIDE DEF u
  <2>3. PICK h : HotkeysTraced(h, u)
    BY <2>1, HotkeysTrace
  <2> HIDE DEF n
  <2>4. g[n] = h[n]
    <3>1. g[0] = h[0] /\ \A k \in 1..n : g[k - 1] = h[k - 1] => g[k] = h[k]
      BY <2>1, <2>2, <2>3 DEF HotkeysTraced, n
    <3> QED
      BY <2>1, <3>1, TracesAgree
  <2>5. h[n + 1] = HotkeyLine(h[n], e)
    BY <2>1, <2>3 DEF HotkeysTraced
  <2> QED
    BY <2>1, <2>2, <2>3, <2>4, <2>5 DEF u, n, HotkeysTraced
<1> QED
  BY <1>1, <1>2

----------------------------------------------------------------------------
(* settings.toml, line by line.                                            *)

\* The provers do not know that a string that is written out is in STRING.
Word == STRING \union {"mode", "auto", "overlay", "true", "overlay_style", "hud", "silence_rms",
                       "0.003", "sidecar", "native", "autostart", "false"}
SettingsRecord == [mode : Word, overlay : BOOLEAN, overlay_style : Word, silence_rms : Word,
                   sidecar : Word, autostart : BOOLEAN]
SettingsLine == [key : Word, val : Word]

LEMMA SettingsTyped ==
    DefaultSettings \in SettingsRecord /\ \A s \in SettingsRecord, l \in SettingsLine : SettingLine(s, l) \in SettingsRecord
<1>1. DefaultSettings \in SettingsRecord
  <2>1. \A m, o, q, c \in Word : \A b, a \in BOOLEAN :
            [mode |-> m, overlay |-> b, overlay_style |-> o, silence_rms |-> q, sidecar |-> c,
             autostart |-> a] \in SettingsRecord
    BY DEF SettingsRecord
  <2> HIDE DEF SettingsRecord
  <2>2. /\ TRUE \in BOOLEAN /\ FALSE \in BOOLEAN
        /\ "auto" \in Word /\ "hud" \in Word /\ "0.003" \in Word /\ "native" \in Word
    BY DEF Word
  <2> QED
    BY <2>1, <2>2, Zenon DEF DefaultSettings
<1>2. ASSUME NEW s \in SettingsRecord, NEW l \in SettingsLine PROVE SettingLine(s, l) \in SettingsRecord
  <2>1. l.val \in Word
    BY DEF SettingsLine, Word
  <2>2. CASE l.key = "mode"
    BY <2>1, <2>2 DEF SettingLine, SettingsRecord
  <2>3. CASE l.key = "overlay_style"
    BY <2>1, <2>3 DEF SettingLine, SettingsRecord
  <2>4. CASE l.key = "sidecar"
    BY <2>1, <2>4 DEF SettingLine, SettingsRecord
  <2>5. CASE l.key = "overlay"
    <3>1. ParseBool(l.val, s.overlay) \in BOOLEAN
      BY DEF ParseBool, SettingsRecord
    <3>2. SettingLine(s, l) = [s EXCEPT !.overlay = ParseBool(l.val, s.overlay)]
      BY <2>5 DEF SettingLine
    <3> QED
      BY <3>1, <3>2 DEF SettingsRecord
  <2>6. CASE l.key = "autostart"
    <3>1. ParseBool(l.val, s.autostart) \in BOOLEAN
      BY DEF ParseBool, SettingsRecord
    <3>2. SettingLine(s, l) = [s EXCEPT !.autostart = ParseBool(l.val, s.autostart)]
      BY <2>6 DEF SettingLine
    <3> QED
      BY <3>1, <3>2 DEF SettingsRecord
  <2>7. CASE l.key = "silence_rms"
    <3> DEFINE v == IF l.val \in Numbers THEN l.val ELSE s.silence_rms
    <3>1. v \in Word
      BY <2>1 DEF SettingsRecord
    <3>2. SettingLine(s, l) = [s EXCEPT !.silence_rms = v]
      BY <2>7 DEF SettingLine
    <3> HIDE DEF v
    <3> QED
      BY <3>1, <3>2 DEF SettingsRecord
  <2>8. CASE l.key \notin {"mode", "overlay_style", "sidecar", "overlay", "autostart", "silence_rms"}
    BY <2>8 DEF SettingLine
  <2> QED
    BY <2>2, <2>3, <2>4, <2>5, <2>6, <2>7, <2>8
<1> QED
  BY <1>1, <1>2

SettingsTraced(g, s) ==
    /\ g[0] = DefaultSettings /\ g[Len(s)] = LoadSettings(s) /\ LoadSettings(s) \in SettingsRecord
    /\ \A k \in 1..Len(s) : g[k] = SettingLine(g[k - 1], s[k])

LEMMA SettingsTrace == \A s \in Seq(SettingsLine) : \E g : SettingsTraced(g, s)
<1> SUFFICES ASSUME NEW s \in Seq(SettingsLine) PROVE \E g : SettingsTraced(g, s)
  OBVIOUS
<1> DEFINE n == Len(s)
           X == SettingsRecord
           G == [p \in X \X (1..n) |-> SettingLine(p[1], s[p[2]])]
           Step(it) == [t \in SUBSET (1..n) |->
                           IF t = {} THEN DefaultSettings ELSE SettingLine(it[t \ {Max(t)}], s[Max(t)])]
           table == CHOOSE it : it = Step(it)
<1>1. n \in Nat /\ DOMAIN s = 1..n /\ \A k \in 1..n : s[k] \in SettingsLine
  OBVIOUS
<1>3. LoadSettings(s) = table[1..n]
  BY <1>1 DEF LoadSettings, FoldLeft, MapThenFoldSet
<1>t. DefaultSettings \in X /\ \A x \in X, e \in SettingsLine : SettingLine(x, e) \in X
  BY SettingsTyped
<1> HIDE DEF X
<1>2. IsStep(G, X, DefaultSettings, n)
  BY <1>1, <1>t DEF IsStep
<1>4. \A x \in X, k \in 1..n : G[<<x, k>>] = SettingLine(x, s[k])
  OBVIOUS
<1> HIDE DEF G, n
<1>5. PICK it : IsTable(it, G, X, DefaultSettings, n)
  BY <1>2, Table
<1>6. it = Step(it)
  BY <1>4, <1>5 DEF IsTable
<1>7. table = Step(table)
  BY <1>6
<1> HIDE DEF table
<1>8. Tabulates(table, G, X, DefaultSettings, n)
  BY <1>4, <1>7 DEF Tabulates
<1>9. PICK g : IsTrace(g, G, X, DefaultSettings, n) /\ g[n] = table[1..n]
  BY <1>2, <1>8, TableTrace
<1>10. \A k \in 1..n : k - 1 \in 0..n
  BY <1>1
<1>11. ASSUME NEW k \in 1..n PROVE g[k] = SettingLine(g[k - 1], s[k])
  <2>1. g[k - 1] \in X /\ g[k] = G[<<g[k - 1], k>>]
    BY <1>9, <1>10 DEF IsTrace
  <2> QED
    BY <1>4, <2>1
<1>12. g[0] = DefaultSettings /\ g[n] \in X
  BY <1>1, <1>9 DEF IsTrace
<1> QED
  BY <1>3, <1>9, <1>11, <1>12 DEF n, X, SettingsTraced

LEMMA SettingsSnoc ==
    /\ LoadSettings(<<>>) = DefaultSettings /\ DefaultSettings \in SettingsRecord
    /\ \A s \in Seq(SettingsLine), e \in SettingsLine : LoadSettings(s) \in SettingsRecord
          /\ LoadSettings(Append(s, e)) = SettingLine(LoadSettings(s), e)
<1>1. LoadSettings(<<>>) = DefaultSettings /\ DefaultSettings \in SettingsRecord
  <2>1. <<>> \in Seq(SettingsLine) /\ Len(<<>>) = 0
    OBVIOUS
  <2>2. PICK f : SettingsTraced(f, <<>>)
    BY <2>1, SettingsTrace
  <2> QED
    BY <2>1, <2>2, SettingsTyped DEF SettingsTraced
<1>2. ASSUME NEW s \in Seq(SettingsLine), NEW e \in SettingsLine
      PROVE  /\ LoadSettings(s) \in SettingsRecord
             /\ LoadSettings(Append(s, e)) = SettingLine(LoadSettings(s), e)
  <2> DEFINE u == Append(s, e)
             n == Len(s)
  <2>1. /\ u \in Seq(SettingsLine) /\ n \in Nat /\ Len(u) = n + 1 /\ u[n + 1] = e
        /\ \A k \in 1..n : u[k] = s[k]
    BY Extended
  <2>2. PICK g : SettingsTraced(g, s)
    BY SettingsTrace
  <2> HIDE DEF u
  <2>3. PICK h : SettingsTraced(h, u)
    BY <2>1, SettingsTrace
  <2> HIDE DEF n
  <2>4. g[n] = h[n]
    <3>1. g[0] = h[0] /\ \A k \in 1..n : g[k - 1] = h[k - 1] => g[k] = h[k]
      BY <2>1, <2>2, <2>3 DEF SettingsTraced, n
    <3> QED
      BY <2>1, <3>1, TracesAgree
  <2>5. h[n + 1] = SettingLine(h[n], e)
    BY <2>1, <2>3 DEF SettingsTraced
  <2> QED
    BY <2>1, <2>2, <2>3, <2>4, <2>5 DEF u, n, SettingsTraced
<1> QED
  BY <1>1, <1>2

LEMMA SettingsRead == \A s \in Seq(SettingsLine) : LoadSettings(s) \in SettingsRecord
BY SettingsTrace DEF SettingsTraced

LEMMA HotkeysRead == \A s \in Seq(FileLine) : LoadHotkeys(s) \in HotkeyTable
BY HotkeysTrace DEF HotkeysTraced

----------------------------------------------------------------------------
(* What is on the disk.                                                    *)

\* A directory is there only after a whole rename, and ensure_model goes to
\* the network only from a step that found none.
Installed ==
    /\ dir \in {{}, {Files}}
    /\ step = "fetch" => ~LooksInstalled

\* Every step outside ensure_model leaves the directory alone, stays where it
\* was in ensure_model or leaves the fetching, and uses no network.
Aside ==
    /\ dir' = dir
    /\ step' = step \/ step' # "fetch"
    /\ online' = online \/ online' = FALSE

LEMMA MainLeavesStore ==
    ASSUME MainThread, ~AcquireModel PROVE Aside
<1> USE DEF Aside, store, disk, Others
<1>1. CASE Launch \/ EnsureTemplate \/ ApplyAutostart
  BY <1>1 DEF Launch, EnsureTemplate, ApplyAutostart
<1>2. CASE Arguments
  BY <1>2 DEF Arguments
<1>3. CASE ModelElsewhere \/ ModelReady \/ ModelFailed
  BY <1>3 DEF ModelElsewhere, ModelReady, ModelFailed
<1>4. CASE SpawnEngine \/ SpawnOk \/ SpawnFails
  BY <1>4 DEF SpawnEngine, SpawnOk, SpawnFails
<1>5. CASE CaptureStarts \/ CaptureFails \/ StartHotkeys \/ InstallHandler \/ SpawnTray
  BY <1>5 DEF CaptureStarts, CaptureFails, StartHotkeys, InstallHandler, SpawnTray
<1>6. CASE TakeQuit \/ DropPipeline \/ LeaveMain \/ FatalTimeout
  BY <1>6 DEF TakeQuit, DropPipeline, LeaveMain, FatalTimeout, FatalExit
<1> QED
  BY <1>1, <1>2, <1>3, <1>4, <1>5, <1>6 DEF MainThread

LEMMA OthersLeaveStore ==
    ASSUME Engine \/ Handler \/ Tray \/ User \/ Killed PROVE Aside
<1> USE DEF Aside, store, disk, Others
<1>1. CASE Engine
  BY <1>1 DEF Engine, PinOk, PinRetry, OtherCopy, WrongVersion, PinGivesUp, EngineDies,
              EngineReady, Dies, EngineStep
<1>2. CASE Handler \/ Tray
  BY <1>2 DEF Handler, Poll, LeaveHandler, Tray, TrayWindow, TrayIcon
<1>3. CASE User \/ Killed
  BY <1>3 DEF User, Busy, BusyEnds, AskQuit, Close, FatalEnter, FatalExit, EditFiles,
              Killed
<1> QED
  BY <1>1, <1>2, <1>3

LEMMA AsideKeeps == ASSUME Installed, Aside PROVE Installed'
BY DEF Installed, Aside, LooksInstalled

LEMMA StoreKeeps == ASSUME Installed, EnsureModel PROVE Installed'
<1> USE DEF Installed, LooksInstalled
<1>1. CASE CheckSentinel
  BY <1>1 DEF CheckSentinel
<1>2. CASE AlreadyFetched \/ Request \/ RequestFails
  BY <1>2 DEF AlreadyFetched, Request, RequestFails
<1>3. CASE ReceiveChunk \/ ReceiveGarbage \/ EndOfBody \/ Interrupted
  BY <1>3 DEF ReceiveChunk, ReceiveGarbage, EndOfBody, Interrupted
<1>4. CASE HashFails \/ Verified \/ Mismatch \/ ExtractFile \/ InstallFails \/ CleanUp
  BY <1>4 DEF HashFails, Verified, Mismatch, ExtractFile, InstallFails, CleanUp
<1>5. CASE Rename
  BY <1>5 DEF Rename
<1> QED
  BY <1>1, <1>2, <1>3, <1>4, <1>5 DEF EnsureModel

LEMMA InstalledInvariant == Spec => []Installed
<1>1. Init => Installed
  BY DEF Init, StoreInit, Installed
<1>2. ASSUME Installed, [Next]_vars PROVE Installed'
  <2>1. CASE AcquireModel
    BY <1>2, <2>1, StoreKeeps DEF AcquireModel
  <2>2. CASE MainThread /\ ~AcquireModel
    BY <1>2, <2>2, MainLeavesStore, AsideKeeps
  <2>3. CASE Engine \/ Handler \/ Tray \/ User \/ Killed
    BY <1>2, <2>3, OthersLeaveStore, AsideKeeps
  <2>4. CASE UNCHANGED vars
    BY <1>2, <2>4, AsideKeeps DEF vars, store, Aside
  <2> QED
    BY <1>2, <2>1, <2>2, <2>3, <2>4 DEF Next
<1> QED
  BY <1>1, <1>2, PTL DEF Spec

(* Whatever is taken for an installed model is complete, wherever the      *)
(* launches before it were cut short (download_and_install).               *)
THEOREM WhatLooksInstalledIs == Spec => []InstalledComplete
<1>1. Installed => InstalledComplete
  BY DEF Installed, InstalledComplete, LooksInstalled
<1> QED
  BY <1>1, InstalledInvariant, PTL

(* No launch goes to the network once a model is installed (ensure_model). *)
THEOREM InstalledStaysOffline == Spec => OfflineOnceInstalled
<1>1. ASSUME Installed, Next, online', ~online PROVE ~LooksInstalled
  <2>1. CASE AcquireModel
    <3>1. CASE Request \/ RequestFails
      BY <1>1, <3>1 DEF Request, RequestFails, Installed
    <3>2. CASE ~(Request \/ RequestFails)
      <4>1. online' = online
        BY <2>1, <3>2 DEF AcquireModel, EnsureModel, CheckSentinel, AlreadyFetched, ReceiveChunk,
             ReceiveGarbage, EndOfBody, Interrupted, HashFails, Verified, Mismatch, ExtractFile,
             InstallFails, Rename, CleanUp
      <4> QED
        BY <1>1, <4>1
    <3> QED
      BY <3>1, <3>2
  <2>2. CASE MainThread /\ ~AcquireModel
    BY <1>1, <2>2, MainLeavesStore DEF Aside
  <2>3. CASE Engine \/ Handler \/ Tray \/ User \/ Killed
    BY <1>1, <2>3, OthersLeaveStore DEF Aside
  <2> QED
    BY <1>1, <2>1, <2>2, <2>3 DEF Next
<1>2. Installed /\ [Next]_vars => [online' /\ ~online => ~LooksInstalled]_vars
  BY <1>1
<1> QED
  BY <1>2, InstalledInvariant, PTL DEF Spec, OfflineOnceInstalled

----------------------------------------------------------------------------
(* Types.                                                                  *)

\* No more is in the partial file than was received and went wrong.
Chunks == Seq(0..Size)
PartTypes ==
    /\ part \in Chunks /\ Len(part) <= Size + faults
    /\ step = "body" => Len(part) <= recv - 1 + faults
    /\ recv \in 1..(Size + 1) /\ faults \in 0..MaxFaults
InstallTypes ==
    /\ staging \subseteq Files
    /\ dir \subseteq SUBSET Files /\ Cardinality(dir) <= 1
    /\ step \in {"idle", "check", "fetch", "body", "verify", "extract", "clean", "ok", "error"}
    /\ online \in BOOLEAN

\* What a step outside ensure_model may do to the store.
AsideTyped ==
    /\ UNCHANGED <<part, staging, dir, recv>>
    /\ faults' = faults \/ Fault
    /\ step' \in {step, "idle", "check"}
    /\ online' \in {online, FALSE}

LEMMA MainAside ==
    ASSUME MainThread, ~AcquireModel PROVE AsideTyped
<1> USE DEF AsideTyped, store, disk, Others
<1>1. CASE Launch \/ EnsureTemplate
  BY <1>1 DEF Launch, EnsureTemplate
<1>2. CASE ApplyAutostart
  BY <1>2 DEF ApplyAutostart, SetRunEntry
<1>3. CASE Arguments
  BY <1>3 DEF Arguments
<1>4. CASE ModelElsewhere \/ ModelReady \/ ModelFailed
  BY <1>4 DEF ModelElsewhere, ModelReady, ModelFailed
<1>5. CASE SpawnEngine \/ SpawnOk \/ SpawnFails
  BY <1>5 DEF SpawnEngine, SpawnOk, SpawnFails
<1>6. CASE CaptureStarts \/ CaptureFails \/ StartHotkeys \/ InstallHandler \/ SpawnTray
  BY <1>6 DEF CaptureStarts, CaptureFails, StartHotkeys, InstallHandler, SpawnTray
<1>7. CASE TakeQuit \/ DropPipeline \/ LeaveMain \/ FatalTimeout
  BY <1>7 DEF TakeQuit, DropPipeline, LeaveMain, FatalTimeout, FatalExit
<1> QED
  BY <1>1, <1>2, <1>3, <1>4, <1>5, <1>6, <1>7 DEF MainThread

LEMMA OthersAside ==
    ASSUME Engine \/ Handler \/ Tray \/ User \/ Killed \/ UNCHANGED vars PROVE AsideTyped
<1> USE DEF AsideTyped, store, disk, Others
<1>1. CASE Engine
  BY <1>1 DEF Engine, PinOk, PinRetry, OtherCopy, WrongVersion, PinGivesUp, EngineDies,
              EngineReady, Dies, EngineStep
<1>2. CASE Handler \/ Tray
  BY <1>2 DEF Handler, Poll, LeaveHandler, Tray, TrayWindow, TrayIcon
<1>3. CASE User \/ Killed \/ UNCHANGED vars
  BY <1>3 DEF User, Busy, BusyEnds, AskQuit, Close, FatalEnter, FatalExit, EditFiles,
              Killed, vars
<1> QED
  BY <1>1, <1>2, <1>3

LEMMA AsideKeepsTypes == ASSUME PartTypes, InstallTypes, AsideTyped PROVE PartTypes' /\ InstallTypes'
<1>1. PartTypes'
  <2>1. part' = part /\ recv' = recv /\ step' \in {step, "idle", "check"}
    BY DEF AsideTyped
  <2>2. faults' \in 0..MaxFaults /\ faults' >= faults
    BY FaultAssumption DEF AsideTyped, Fault, PartTypes
  <2> QED
    BY <2>1, <2>2, SizeAssumption DEF PartTypes
<1>2. InstallTypes'
  BY DEF InstallTypes, AsideTyped
<1> QED
  BY <1>1, <1>2

LEMMA ChunksGrow ==
    /\ <<>> \in Chunks /\ Len(<<>>) = 0
    /\ \A p \in Chunks : Len(p) \in Nat
    /\ \A p \in Chunks, c \in 0..Size : Append(p, c) \in Chunks /\ Len(Append(p, c)) = Len(p) + 1
<1>1. <<>> \in Chunks /\ Len(<<>>) = 0
  BY DEF Chunks
<1>2. \A p \in Chunks : Len(p) \in Nat
  BY DEF Chunks
<1>3. \A p \in Chunks, c \in 0..Size : Append(p, c) \in Chunks /\ Len(Append(p, c)) = Len(p) + 1
  BY DEF Chunks
<1> QED
  BY <1>1, <1>2, <1>3

LEMMA PartKept == ASSUME PartTypes, EnsureModel PROVE PartTypes'
<1> USE SizeAssumption, FaultAssumption DEF Fault
<1>1. CASE CheckSentinel \/ AlreadyFetched
  BY <1>1 DEF CheckSentinel, AlreadyFetched, PartTypes
<1> DEFINE none == <<>>
<1>3. none \in Chunks /\ Len(none) = 0
  BY ChunksGrow
<1>2. Len(part) \in Nat
  BY ChunksGrow DEF PartTypes
<1>4. /\ Kept \in Chunks /\ Len(Kept) \in Nat /\ Len(Kept) <= Size
      /\ Len(part) # Size => Len(Kept) < Size
  <2>1. Kept = IF Len(part) > Size THEN none ELSE part
    BY DEF Kept
  <2> HIDE DEF none
  <2> QED
    BY <1>2, <1>3, <2>1 DEF PartTypes
<1>5. CASE Request
  <2>1. \/ part' = Kept /\ recv' = Len(Kept) + 1
        \/ part' = none /\ recv' = 1
    BY <1>5 DEF Request
  <2> HIDE DEF none
  <2>2. /\ part' \in Chunks /\ Len(part') <= Size /\ Len(part') <= recv' - 1
        /\ recv' \in 1..(Size + 1)
    BY <1>3, <1>4, <1>5, <2>1 DEF Request
  <2> QED
    BY <1>5, <2>2 DEF Request, PartTypes
<1>6. CASE RequestFails
  <2>1. part' \in {Kept, part} /\ step' = "error" /\ recv' = recv /\ faults' = faults + 1
        /\ faults < MaxFaults
    BY <1>6 DEF RequestFails
  <2> HIDE DEF Fault
  <2> QED
    BY <1>2, <1>4, <2>1 DEF PartTypes
<1>7. CASE ReceiveChunk
  <2>1. /\ part' \in Chunks /\ Len(part') = Len(part) + 1 /\ Len(part) \in Nat
        /\ recv' = recv + 1 /\ recv <= Size /\ faults' = faults /\ step = "body"
    BY <1>2, <1>7, ChunksGrow DEF ReceiveChunk, PartTypes
  <2> QED
    BY <2>1 DEF PartTypes
<1>8. CASE ReceiveGarbage
  <2>1. /\ part' \in Chunks /\ Len(part') = Len(part) + 1 /\ Len(part) \in Nat
        /\ recv' = (IF recv <= Size THEN recv + 1 ELSE recv) /\ faults' = faults + 1
        /\ faults < MaxFaults /\ step = "body"
    BY <1>2, <1>8, ChunksGrow DEF ReceiveGarbage, Garbage, PartTypes
  <2> QED
    BY <2>1 DEF PartTypes
<1>9. CASE EndOfBody \/ Interrupted
  BY <1>9 DEF EndOfBody, Interrupted, PartTypes
<1>10. CASE HashFails \/ Verified \/ ExtractFile \/ InstallFails \/ Rename
  BY <1>10 DEF HashFails, Verified, ExtractFile, InstallFails, Rename, PartTypes
<1>11. CASE Mismatch \/ CleanUp
  <2>1. /\ part' = none \/ part' = part
        /\ recv' = recv /\ step' # "body" /\ faults' \in 0..MaxFaults /\ faults' >= faults
    BY <1>11 DEF Mismatch, CleanUp, PartTypes
  <2> HIDE DEF none
  <2> QED
    BY <1>2, <1>3, <2>1 DEF PartTypes
<1> QED
  BY <1>1, <1>5, <1>6, <1>7, <1>8, <1>9, <1>10, <1>11 DEF EnsureModel

LEMMA InstallKept == ASSUME InstallTypes, EnsureModel PROVE InstallTypes'
<1>1. CASE Rename
  <2>1. Cardinality({staging}) <= 1 /\ (staging \subseteq Files => {staging} \subseteq SUBSET Files)
    BY FS_Singleton
  <2> QED
    BY <1>1, <2>1 DEF Rename, InstallTypes
<1>2. CASE EnsureModel /\ ~Rename
  BY <1>2 DEF EnsureModel, CheckSentinel, AlreadyFetched, Request, RequestFails, ReceiveChunk,
     ReceiveGarbage, EndOfBody, Interrupted, HashFails, Verified, Mismatch, ExtractFile, InstallFails,
     CleanUp, InstallTypes
<1> QED
  BY <1>1, <1>2

LEMMA StoreTyped == Spec => [](PartTypes /\ InstallTypes)
<1>1. Init => PartTypes /\ InstallTypes
  <2> DEFINE none == <<>>
  <2>1. none \in Chunks /\ Len(none) = 0
    BY ChunksGrow
  <2>2. Init => part = none /\ recv = 1 /\ faults = 0 /\ step = "idle"
    BY DEF Init, StoreInit
  <2>3. Init => InstallTypes
    <3>1. Cardinality({}) <= 1
      BY FS_EmptySet
    <3> QED
      BY <3>1 DEF Init, StoreInit, InstallTypes
  <2> HIDE DEF none
  <2> QED
    BY <2>1, <2>2, <2>3, SizeAssumption, FaultAssumption DEF PartTypes
<1>2. ASSUME PartTypes, InstallTypes, [Next]_vars PROVE PartTypes' /\ InstallTypes'
  <2>1. CASE AcquireModel
    BY <1>2, <2>1, PartKept, InstallKept DEF AcquireModel
  <2>2. CASE MainThread /\ ~AcquireModel
    BY <1>2, <2>2, MainAside, AsideKeepsTypes
  <2>3. CASE Engine \/ Handler \/ Tray \/ User \/ Killed \/ UNCHANGED vars
    BY <1>2, <2>3, OthersAside, AsideKeepsTypes
  <2> QED
    BY <1>2, <2>1, <2>2, <2>3 DEF Next
<1> QED
  BY <1>1, <1>2, PTL DEF Spec

----------------------------------------------------------------------------
(* Where the threads stand.                                                *)

Early == {"settings", "autostart", "args", "model", "dictionary"}
\* Two failed starts are fatal; an engine that runs while one is waited for had
\* at most one before it.
ThreadTypes ==
    /\ main \in {"gone", "settings", "autostart", "args", "model", "dictionary", "spawn",
                 "capture", "wire", "handler", "tray", "serve", "busy", "drop", "delete", "fatal"}
    /\ engine \in {"none", "pin", "load", "ready"}
    /\ spawns \in 0..2
    /\ main \in Early => spawns = 0
    /\ main = "spawn" /\ engine # "none" => spawns <= 1
CounterTypes ==
    /\ loads \in 0..(Attempts - 1) /\ ticks \in 0..MaxTicks
    /\ handler \in {"none", "installed", "polling"}
    /\ tray \in {"none", "spawned", "window", "icon"}
FlagTypes == quit \in BOOLEAN /\ done \in BOOLEAN /\ icon \in BOOLEAN

LEMMA ThreadsKept == ASSUME ThreadTypes, Next PROVE ThreadTypes'
<1> USE DEF ThreadTypes, Early, Go, Others, config, child, exits
<1>1. CASE Launch \/ LeaveMain \/ FatalExit \/ LeaveHandler \/ Killed
  BY <1>1 DEF Launch, LeaveMain, FatalExit, LeaveHandler, Killed, Fresh
<1>2. CASE EnsureTemplate \/ ApplyAutostart
  BY <1>2 DEF EnsureTemplate, ApplyAutostart
<1>3. CASE Arguments
  <2>1. /\ main = "args" /\ main' \in {"dictionary", "model", "gone"} /\ spawns' \in {spawns, 0}
        /\ engine' \in {engine, "none"}
    BY <1>3 DEF Arguments, Fresh
  <2> QED
    BY <2>1
<1>4. CASE AcquireModel \/ ModelElsewhere \/ ModelReady \/ ModelFailed
  BY <1>4 DEF AcquireModel, ModelElsewhere, ModelReady, ModelFailed, life
<1>5. CASE SpawnEngine \/ SpawnOk \/ SpawnFails
  BY <1>5 DEF SpawnEngine, SpawnOk, SpawnFails
<1>6. CASE CaptureStarts \/ CaptureFails \/ StartHotkeys \/ InstallHandler \/ SpawnTray
  BY <1>6 DEF CaptureStarts, CaptureFails, StartHotkeys, InstallHandler, SpawnTray
<1>7. CASE TakeQuit \/ DropPipeline
  BY <1>7 DEF TakeQuit, DropPipeline
<1>8. CASE Engine
  BY <1>8 DEF Engine, PinOk, PinRetry, OtherCopy, WrongVersion, PinGivesUp, EngineDies,
              EngineReady, Dies, EngineStep
<1>9. CASE Poll \/ Tray \/ User
  BY <1>9 DEF Poll, Tray, TrayWindow, TrayIcon, User, Busy, BusyEnds, AskQuit, Close, EditFiles,
     FatalEnter, FatalExit, Fresh
<1> QED
  BY <1>1, <1>2, <1>3, <1>4, <1>5, <1>6, <1>7, <1>8, <1>9
     DEF Next, MainThread, Handler, FatalTimeout

LEMMA CountersKept == ASSUME CounterTypes, Next PROVE CounterTypes'
<1> USE AttemptsAssumption DEF CounterTypes, Go, Others, child, exits, shell
<1>1. CASE Launch \/ FatalExit \/ Killed
  BY <1>1 DEF Launch, FatalExit, Killed, Fresh
<1>2. CASE LeaveMain \/ LeaveHandler
  BY <1>2 DEF LeaveMain, LeaveHandler, Fresh
<1>3. CASE EnsureTemplate \/ ApplyAutostart
  BY <1>3 DEF EnsureTemplate, ApplyAutostart
<1>4. CASE Arguments
  <2>1. UNCHANGED <<child, exits, tray>> \/ Fresh
    BY <1>4 DEF Arguments
  <2> QED
    BY <2>1 DEF Fresh
<1>5. CASE AcquireModel \/ ModelElsewhere \/ ModelReady \/ ModelFailed
  BY <1>5 DEF AcquireModel, ModelElsewhere, ModelReady, ModelFailed, life
<1>6. CASE SpawnEngine \/ SpawnOk \/ SpawnFails
  BY <1>6 DEF SpawnEngine, SpawnOk, SpawnFails
<1>7. CASE CaptureStarts \/ CaptureFails \/ StartHotkeys \/ InstallHandler \/ SpawnTray
  BY <1>7 DEF CaptureStarts, CaptureFails, StartHotkeys, InstallHandler, SpawnTray
<1>8. CASE TakeQuit \/ DropPipeline
  BY <1>8 DEF TakeQuit, DropPipeline
<1>9. CASE Engine
  BY <1>9 DEF Engine, PinOk, PinRetry, OtherCopy, WrongVersion, PinGivesUp, EngineDies,
              EngineReady, Dies, EngineStep
<1>10. CASE Poll \/ Tray
  BY <1>10 DEF Poll, Tray, TrayWindow, TrayIcon
<1>11. CASE User
  BY <1>11 DEF User, Busy, BusyEnds, AskQuit, Close, EditFiles,
     FatalEnter, FatalExit, Fresh
<1> QED
  BY <1>1, <1>2, <1>3, <1>4, <1>5, <1>6, <1>7, <1>8, <1>9, <1>10, <1>11
     DEF Next, MainThread, Handler, FatalTimeout

LEMMA FlagsKept == ASSUME FlagTypes, Next PROVE FlagTypes'
<1>1. quit' \in {quit, FALSE, TRUE} /\ done' \in {done, FALSE, TRUE}
  <2> USE DEF Go, Others, exits
  <2>1. CASE Launch \/ FatalExit \/ Killed \/ LeaveMain \/ LeaveHandler
    BY <2>1 DEF Launch, FatalExit, Killed, LeaveMain, LeaveHandler, Fresh
  <2>2. CASE EnsureTemplate \/ ApplyAutostart
    BY <2>2 DEF EnsureTemplate, ApplyAutostart
  <2>3. CASE Arguments
    BY <2>3 DEF Arguments, Fresh
  <2>4. CASE AcquireModel \/ ModelElsewhere \/ ModelReady \/ ModelFailed
    BY <2>4 DEF AcquireModel, ModelElsewhere, ModelReady, ModelFailed, life
  <2>5. CASE SpawnEngine \/ SpawnOk \/ SpawnFails
    BY <2>5 DEF SpawnEngine, SpawnOk, SpawnFails
  <2>6. CASE CaptureStarts \/ CaptureFails \/ StartHotkeys \/ InstallHandler \/ SpawnTray
    BY <2>6 DEF CaptureStarts, CaptureFails, StartHotkeys, InstallHandler, SpawnTray
  <2>7. CASE TakeQuit \/ DropPipeline
    BY <2>7 DEF TakeQuit, DropPipeline
  <2>8. CASE Engine
    BY <2>8 DEF Engine, PinOk, PinRetry, OtherCopy, WrongVersion, PinGivesUp, EngineDies,
                EngineReady, Dies, EngineStep
  <2>9. CASE Poll \/ Tray \/ User
    BY <2>9 DEF Poll, Tray, TrayWindow, TrayIcon, User, Busy, BusyEnds, AskQuit, Close, EditFiles,
     FatalEnter, FatalExit, Fresh
  <2> QED
    BY <2>1, <2>2, <2>3, <2>4, <2>5, <2>6, <2>7, <2>8, <2>9
     DEF Next, MainThread, Handler, FatalTimeout
<1>2. icon' = icon \/ icon' \in BOOLEAN
  <2> USE DEF Go, Others, shell
  <2>1. CASE Launch \/ FatalExit \/ Killed
    BY <2>1 DEF Launch, FatalExit, Killed
  <2>2. CASE LeaveMain \/ LeaveHandler
    <3>1. icon' = (icon /\ tray \in {"none", "spawned"})
      BY <2>2 DEF LeaveMain, LeaveHandler, DeleteIcon
    <3> QED
      BY <3>1, Zenon
  <2>3. CASE EnsureTemplate \/ ApplyAutostart \/ Arguments
    BY <2>3 DEF EnsureTemplate, ApplyAutostart, Arguments
  <2>4. CASE AcquireModel \/ ModelElsewhere \/ ModelReady \/ ModelFailed
    BY <2>4 DEF AcquireModel, ModelElsewhere, ModelReady, ModelFailed, life
  <2>5. CASE SpawnEngine \/ SpawnOk \/ SpawnFails
    BY <2>5 DEF SpawnEngine, SpawnOk, SpawnFails
  <2>6. CASE CaptureStarts \/ CaptureFails \/ StartHotkeys \/ InstallHandler \/ SpawnTray
    BY <2>6 DEF CaptureStarts, CaptureFails, StartHotkeys, InstallHandler, SpawnTray
  <2>7. CASE TakeQuit \/ DropPipeline
    BY <2>7 DEF TakeQuit, DropPipeline
  <2>8. CASE Engine
    BY <2>8 DEF Engine, PinOk, PinRetry, OtherCopy, WrongVersion, PinGivesUp, EngineDies,
                EngineReady, Dies, EngineStep
  <2>9. CASE Poll \/ TrayWindow \/ User
    BY <2>9 DEF Poll, TrayWindow, User, Busy, BusyEnds, AskQuit, Close, EditFiles,
     FatalEnter, FatalExit, Fresh
  <2>10. CASE TrayIcon
    BY <2>10, Zenon DEF TrayIcon
  <2> QED
    BY <2>1, <2>2, <2>3, <2>4, <2>5, <2>6, <2>7, <2>8, <2>9, <2>10
     DEF Next, MainThread, Handler, Tray, FatalTimeout
<1>3. /\ \A f \in {quit, FALSE, TRUE} : quit \in BOOLEAN => f \in BOOLEAN
      /\ \A f \in {done, FALSE, TRUE} : done \in BOOLEAN => f \in BOOLEAN
  BY Zenon
<1> QED
  BY <1>1, <1>2, <1>3, Zenon DEF FlagTypes

----------------------------------------------------------------------------
(* What main took from the files.                                          *)

HookOf(file) == StartHook(LoadHotkeys(Lines(file)).ptt, ChordsOf(LoadHotkeys(Lines(file))))

\* The files are edited only between two launches, so that what was read from
\* them is what they say.
IsOne(S) == \E x : S = {x}
SomeSettings == {{}, {Template}} \union {{f} : f \in SettingsFiles}
SomeHotkeys == {{}} \union {{f} : f \in HotkeyFiles}
FileTypes ==
    /\ settings \in SomeSettings /\ hotkeys \in SomeHotkeys
    /\ runKey \in BOOLEAN
    /\ setup = {} \/ IsOne(setup)
    /\ hook = {} \/ (main # "gone" /\ hook = {HookOf(hotkeys)})
    /\ main = "autostart" => setup = {FromSettings(LoadSettings(Lines(settings)))}

LEMMA FilesTyped ==
    ASSUME FileTypes
    PROVE  Lines(settings) \in Seq(SettingsLine) /\ Lines(hotkeys) \in Seq(FileLine)
<1>1. \A f : Lines({f}) = f
  BY DEF Lines
<1>2. <<>> \in Seq(SettingsLine) /\ Lines({}) = <<>>
  BY DEF Lines
<1>3. <<>> \in Seq(FileLine)
  OBVIOUS
<1>4. Template \in Seq(SettingsLine)
  <2>1. \A k, v \in Word : [key |-> k, val |-> v] \in SettingsLine
    BY DEF SettingsLine
  <2>2. /\ "mode" \in Word /\ "auto" \in Word /\ "overlay" \in Word /\ "true" \in Word
        /\ "overlay_style" \in Word /\ "hud" \in Word /\ "silence_rms" \in Word
        /\ "0.003" \in Word /\ "sidecar" \in Word /\ "native" \in Word
        /\ "autostart" \in Word /\ "false" \in Word
    BY DEF Word
  <2>3. \A T : \A a, b, c, d, e, f \in T : <<a, b, c, d, e, f>> \in Seq(T)
    OBVIOUS
  <2> HIDE DEF SettingsLine
  <2> QED
    BY <2>1, <2>2, <2>3 DEF Template
<1>5. Seq([key : STRING, val : STRING]) \subseteq Seq(SettingsLine)
  <2>1. [key : STRING, val : STRING] \subseteq SettingsLine
    BY DEF SettingsLine, Word
  <2>2. \A S, T : S \subseteq T => Seq(S) \subseteq Seq(T)
    OBVIOUS
  <2> QED
    BY <2>1, <2>2
<1>6. Lines(settings) \in Seq(SettingsLine)
  <2>1. settings = {} \/ settings = {Template} \/ \E f \in SettingsFiles : settings = {f}
    BY DEF FileTypes, SomeSettings
  <2>2. SettingsFiles \subseteq Seq(SettingsLine)
    BY <1>5, FilesAssumption
  <2> DEFINE T == Seq(SettingsLine)
  <2>3. Lines({}) \in T /\ Template \in T /\ SettingsFiles \subseteq T
    BY <1>2, <1>4, <2>2, Zenon
  <2> HIDE DEF T
  <2>4. Lines(settings) \in T
    BY <1>1, <2>1, <2>3
  <2> QED
    BY <2>4 DEF T
<1>7. Lines(hotkeys) \in Seq(FileLine)
  <2>1. hotkeys = {} \/ \E f \in HotkeyFiles : hotkeys = {f}
    BY DEF FileTypes, SomeHotkeys
  <2>2. HotkeyFiles \subseteq Seq(FileLine)
    BY FilesAssumption DEF FileLine
  <2> DEFINE T == Seq(FileLine)
  <2>3. Lines({}) \in T /\ HotkeyFiles \subseteq T
    BY <1>2, <1>3, <2>2, Zenon
  <2> HIDE DEF T
  <2>4. Lines(hotkeys) \in T
    BY <1>1, <2>1, <2>3
  <2> QED
    BY <2>4 DEF T
<1> QED
  BY <1>6, <1>7

LEMMA FilesKept == ASSUME FileTypes, Next PROVE FileTypes'
<1>1. CASE Launch \/ LeaveMain \/ FatalExit \/ LeaveHandler \/ Killed
  <2>1. UNCHANGED <<settings, hotkeys, runKey>>
    BY <1>1 DEF Launch, LeaveMain, FatalExit, LeaveHandler, Killed, files
  <2>2. setup' = {} /\ hook' = {} /\ main' # "autostart"
    BY <1>1 DEF Launch, LeaveMain, FatalExit, LeaveHandler, Killed, Fresh, Go
  <2>3. settings' \in SomeSettings /\ hotkeys' \in SomeHotkeys /\ runKey' \in BOOLEAN
    BY <2>1 DEF FileTypes, SomeSettings, SomeHotkeys
  <2> QED
    BY <2>2, <2>3, Zenon DEF FileTypes
<1>2. CASE EnsureTemplate
  <2>1. /\ settings' = settings \/ settings' = {Template}
        /\ setup' = {FromSettings(LoadSettings(Lines(settings')))}
        /\ hotkeys' = hotkeys /\ runKey' = runKey /\ hook' = hook /\ main' = "autostart"
    BY <1>2 DEF EnsureTemplate, Go
  <2>2. IsOne(setup')
    BY <2>1 DEF IsOne
  <2>3. {Template} \in SomeSettings
    BY DEF SomeSettings
  <2> QED
    BY <2>1, <2>2, <2>3 DEF FileTypes
<1>3. CASE ApplyAutostart
  <2>1. \A s \in setup : s.autostart \in BOOLEAN
    <3> DEFINE r == LoadSettings(Lines(settings))
    <3>1. r \in SettingsRecord
      BY FilesTyped, SettingsRead
    <3>2. setup = {FromSettings(r)}
      BY <1>3 DEF FileTypes, ApplyAutostart, Go
    <3> HIDE DEF r
    <3>3. FromSettings(r).autostart = r.autostart
      BY DEF FromSettings
    <3> QED
      BY <3>1, <3>2, <3>3 DEF SettingsRecord
  <2>2. runKey' \in BOOLEAN
    BY <1>3, <2>1 DEF ApplyAutostart, SetRunEntry, RunEntry, FileTypes
  <2>3. UNCHANGED <<settings, hotkeys, setup, hook>> /\ main' = "args"
    BY <1>3 DEF ApplyAutostart, files, Go
  <2> QED
    BY <2>2, <2>3 DEF FileTypes
<1>4. CASE Arguments
  <2>1. /\ settings' = settings /\ hotkeys' = hotkeys /\ runKey' = runKey
        /\ main = "args" /\ main' # "autostart"
    BY <1>4 DEF Arguments, files
  <2>2. \/ /\ \E s : setup' = {s}
           /\ hook' = hook /\ main' # "gone"
        \/ setup' = {} /\ hook' = {}
    BY <1>4 DEF Arguments, Fresh
  <2> QED
    BY <2>1, <2>2 DEF FileTypes, IsOne
<1>5. CASE AcquireModel \/ ModelElsewhere \/ ModelReady \/ ModelFailed
  BY <1>5 DEF FileTypes, AcquireModel, ModelElsewhere, ModelReady, ModelFailed, life, Others, config,
     files, Go
<1>6. CASE SpawnEngine \/ SpawnFails
  BY <1>6 DEF FileTypes, SpawnEngine, SpawnFails, Others, config, files, Go
<1>7. CASE SpawnOk
  <2> DEFINE f(s) == [s EXCEPT !.mode = IF @ = "email" /\ s.sidecar = "native" THEN "polish" ELSE @]
  <2>1. setup' = {f(s) : s \in setup}
    BY <1>7 DEF SpawnOk
  <2> HIDE DEF f
  <2>2. setup' = {} \/ IsOne(setup')
    <3>1. CASE setup = {}
      BY <2>1, <3>1
    <3>2. CASE IsOne(setup)
      <4>1. PICK s : setup = {s}
        BY <3>2 DEF IsOne
      <4>2. setup' = {f(s)}
        BY <2>1, <4>1
      <4> QED
        BY <4>2 DEF IsOne
    <3>3. {} \in SomeSettings /\ {} \in SomeHotkeys
      BY DEF SomeSettings, SomeHotkeys
    <3> QED
      BY <3>1, <3>2, <3>3, Zenon DEF FileTypes
  <2>3. UNCHANGED <<settings, hotkeys, runKey, hook>> /\ main = "spawn" /\ main' = "capture"
    BY <1>7 DEF SpawnOk, files, Go
  <2>4. settings' \in SomeSettings /\ hotkeys' \in SomeHotkeys /\ runKey' \in BOOLEAN
    BY <2>3 DEF FileTypes, SomeSettings, SomeHotkeys
  <2>5. hook' = {} \/ (main' # "gone" /\ hook' = {HookOf(hotkeys)'})
    BY <2>3 DEF FileTypes
  <2>6. main' # "autostart"
    BY <2>3
  <2> QED
    BY <2>2, <2>4, <2>5, <2>6, Zenon DEF FileTypes
<1>8. CASE StartHotkeys
  <2>1. hook' = {HookOf(hotkeys)}
    BY <1>8 DEF StartHotkeys, HookOf
  <2>2. UNCHANGED <<settings, hotkeys, runKey, setup>> /\ main' = "handler"
    BY <1>8 DEF StartHotkeys, files, Go
  <2> QED
    BY <2>1, <2>2 DEF FileTypes
<1>9. CASE CaptureStarts \/ CaptureFails \/ InstallHandler \/ SpawnTray \/ TakeQuit \/ DropPipeline
  BY <1>9 DEF FileTypes, CaptureStarts, CaptureFails, InstallHandler, SpawnTray, TakeQuit,
              DropPipeline, Others, config, files, Go
<1>10. CASE Engine
  BY <1>10 DEF FileTypes, Engine, PinOk, PinRetry, OtherCopy, WrongVersion, PinGivesUp, EngineDies,
               EngineReady, Dies, EngineStep, config, files
<1>11. CASE Poll \/ Tray \/ Busy \/ BusyEnds \/ AskQuit \/ Close
  BY <1>11 DEF FileTypes, Poll, Tray, TrayWindow, TrayIcon, Busy, BusyEnds, AskQuit, Close,
               Others, config, files, Go
<1>12. CASE EditFiles
  <2>1. main = "gone" /\ main' = "gone" /\ UNCHANGED <<runKey, setup, hook>>
    BY <1>12 DEF EditFiles
  <2>2. settings' \in SomeSettings /\ hotkeys' \in SomeHotkeys
    BY <1>12 DEF EditFiles, FileTypes, SomeSettings, SomeHotkeys
  <2> QED
    BY <2>1, <2>2 DEF FileTypes
<1> QED
  BY <1>1, <1>2, <1>3, <1>4, <1>5, <1>6, <1>7, <1>8, <1>9, <1>10, <1>11, <1>12
     DEF Next, MainThread, Handler, User, FatalEnter, FatalTimeout

LifeTypes == ThreadTypes /\ CounterTypes /\ FlagTypes /\ FileTypes

LEMMA LifeTyped == Spec => []LifeTypes
<1>1. Init => LifeTypes
  <2>1. Init => ThreadTypes /\ CounterTypes
    BY AttemptsAssumption DEF Init, ThreadTypes, CounterTypes, Early
  <2>2. Init => FlagTypes
    BY Zenon DEF Init, FlagTypes
  <2>3. Init => FileTypes
    <3>1. Init => runKey \in BOOLEAN
      BY Zenon DEF Init
    <3>2. Init => settings = {} /\ hotkeys = {} /\ setup = {} /\ hook = {} /\ main # "autostart"
      BY DEF Init
    <3>3. {} \in SomeSettings /\ {} \in SomeHotkeys
      BY DEF SomeSettings, SomeHotkeys
    <3> QED
      BY <3>1, <3>2, <3>3, Zenon DEF FileTypes
  <2> QED
    BY <2>1, <2>2, <2>3 DEF LifeTypes
<1>2. ASSUME LifeTypes, [Next]_vars PROVE LifeTypes'
  <2>1. CASE Next
    BY <1>2, <2>1, ThreadsKept, CountersKept, FlagsKept, FilesKept DEF LifeTypes
  <2>2. CASE UNCHANGED vars
    BY <1>2, <2>2 DEF LifeTypes, ThreadTypes, CounterTypes, FlagTypes, FileTypes, vars, life, config,
       files, child, exits, shell
  <2> QED
    BY <1>2, <2>1, <2>2
<1> QED
  BY <1>1, <1>2, PTL DEF Spec

----------------------------------------------------------------------------
(* What the hotkeys come to.                                               *)

SlotNames == {"cycle_mode", "cycle_style", "quit"}

LEMMA SlotsAre == ToSet(Slots) = SlotNames /\ Slots \in Seq(SlotNames) /\ Len(Slots) = 3
<1>1. Slots \in Seq(SlotNames) /\ Len(Slots) = 3
  BY DEF Slots, SlotNames
<1>2. /\ DOMAIN Slots = {1, 2, 3} /\ Slots[1] = "cycle_mode" /\ Slots[2] = "cycle_style"
      /\ Slots[3] = "quit"
  BY DEF Slots
<1> QED
  BY <1>1, <1>2 DEF ToSet, SlotNames

\* The last line that sets a slot is the last one of the longer file, when it
\* does, and the one before it when it does not.
LEMMA ChosenSnoc ==
    ASSUME NEW s \in Seq(FileLine), NEW l \in FileLine, NEW slot
    PROVE  ChosenOf(Append(s, l), slot) = IF Sets(l, slot) THEN l.val ELSE ChosenOf(s, slot)
<1> DEFINE u == Append(s, l)
           n == Len(s)
           I(q) == {i \in 1..Len(q) : Sets(q[i], slot)}
<1>1. /\ u \in Seq(FileLine) /\ n \in Nat /\ Len(u) = n + 1 /\ u[n + 1] = l
      /\ \A k \in 1..n : u[k] = s[k]
  BY Extended
<1> HIDE DEF u
<1>2. \A q : SelectLastInSeq(q, LAMBDA m : Sets(m, slot)) = IF I(q) # {} THEN Max(I(q)) ELSE 0
  BY DEF SelectLastInSeq
<1>3. \A k \in 1..(n + 1) : k \in 1..n \/ k = n + 1
  BY <1>1
<1>4. CASE Sets(l, slot)
  <2>1. n + 1 \in I(u) /\ I(u) \subseteq 1..(n + 1) /\ n + 1 \in Nat
    BY <1>1, <1>4
  <2>2. Max(I(u)) = n + 1
    <3> HIDE DEF I
    <3> QED
      BY <2>1, LargestIs
  <2>3. n + 1 # 0 /\ I(u) # {}
    BY <1>1, <2>1
  <2> HIDE DEF I
  <2> QED
    BY <1>1, <1>2, <1>4, <2>2, <2>3 DEF ChosenOf, u
<1>5. CASE ~Sets(l, slot)
  <2>1. I(u) = I(s)
    BY <1>1, <1>3, <1>5
  <2>2. I(s) # {} => Max(I(s)) \in 1..n
    <3>1. I(s) \subseteq 1..n
      OBVIOUS
    <3> HIDE DEF I
    <3> QED
      BY <1>1, <3>1, LargestIn
  <2> HIDE DEF I
  <2>3. CASE I(s) = {}
    BY <1>2, <1>5, <2>1, <2>3 DEF ChosenOf, u
  <2>4. CASE I(s) # {}
    <3>1. Max(I(s)) # 0 /\ u[Max(I(s))] = s[Max(I(s))]
      BY <1>1, <2>2, <2>4
    <3> QED
      BY <1>2, <1>5, <2>1, <2>4, <3>1 DEF ChosenOf, u
  <2> QED
    BY <2>3, <2>4
<1> QED
  BY <1>4, <1>5 DEF u

LEMMA ClearedIsUnbound ==
    \A v \in {<<"off">>, <<"none">>, <<>>} : BindingFromCombo(v) = {}
<1>1. ToSet(<<>>) = {} /\ ToSet(<<"off">>) = {"off"} /\ ToSet(<<"none">>) = {"none"}
  BY DEF ToSet
<1>2. "off" \notin DOMAIN NameToMod /\ "none" \notin DOMAIN NameToMod
  BY DEF NameToMod
<1>3. \A v : ToSet(v) \cap DOMAIN NameToMod = {} => BindingFromCombo(v) = {}
  BY DEF BindingFromCombo, ParseCombo
<1>4. ToSet(<<>>) \cap DOMAIN NameToMod = {} /\ ToSet(<<"off">>) \cap DOMAIN NameToMod = {}
      /\ ToSet(<<"none">>) \cap DOMAIN NameToMod = {}
  BY <1>1, <1>2
<1>5. /\ BindingFromCombo(<<>>) = {} /\ BindingFromCombo(<<"off">>) = {}
      /\ BindingFromCombo(<<"none">>) = {}
  BY <1>3, <1>4, Zenon
<1> QED
  BY <1>5, Zenon

\* Whatever the file says, a slot holds what the line chosen for it binds.
SlotsFollow(s) == \A slot \in SlotNames : LoadHotkeys(s)[slot] = BindingFromCombo(ChosenOf(s, slot))

LEMMA SlotsFollowFile == \A s \in Seq(FileLine) : SlotsFollow(s)
<1> DEFINE R == {s \in Seq(FileLine) : SlotsFollow(s)}
<1>1. <<>> \in R
  <2> DEFINE none == <<>>
  <2>1. none \in Seq(FileLine) /\ Len(none) = 0 /\ LoadHotkeys(none) = DefaultHotkeys
    BY HotkeysSnoc
  <2> HIDE DEF none
  <2>2. \A slot : ChosenOf(none, slot) = Unset(slot)
    <3>1. \A slot : {i \in 1..Len(none) : Sets(none[i], slot)} = {}
      BY <2>1
    <3> QED
      BY <3>1 DEF ChosenOf, SelectLastInSeq
  <2>3. \A slot \in SlotNames : DefaultHotkeys[slot] = BindingFromCombo(Unset(slot))
    BY DEF DefaultHotkeys, SlotNames, Unset
  <2>4. none \in R
    BY <2>1, <2>2, <2>3 DEF SlotsFollow
  <2> QED
    BY <2>4 DEF none
<1>2. ASSUME NEW s \in Seq(FileLine), NEW l \in FileLine, s \in R PROVE Append(s, l) \in R
  <2> DEFINE hk == LoadHotkeys(s)
             u == Append(s, l)
  <2>1. u \in Seq(FileLine) /\ LoadHotkeys(u) = HotkeyLine(hk, l) /\ hk \in HotkeyTable
    BY Extended, HotkeysSnoc
  <2>2. ASSUME NEW slot \in SlotNames PROVE LoadHotkeys(u)[slot] = BindingFromCombo(ChosenOf(u, slot))
    <3>1. hk[slot] = BindingFromCombo(ChosenOf(s, slot))
      BY <1>2 DEF SlotsFollow
    <3>2. ChosenOf(u, slot) = IF Sets(l, slot) THEN l.val ELSE ChosenOf(s, slot)
      BY ChosenSnoc
    <3>3. slot # "ptt" /\ slot \in DOMAIN hk
      BY <2>1 DEF SlotNames, HotkeyTable, HotkeySlots
    <3> HIDE DEF u, hk
    <3>4. CASE l.key \notin DOMAIN SlotOf \/ SlotOf[l.key] # slot
      <4>1. HotkeyLine(hk, l)[slot] = hk[slot]
        BY <2>1, <3>3, <3>4 DEF HotkeyLine, HotkeyTable
      <4>2. ~Sets(l, slot)
        BY <3>4 DEF Sets
      <4> QED
        BY <2>1, <3>1, <3>2, <4>1, <4>2
    <3>5. CASE l.key \in DOMAIN SlotOf /\ SlotOf[l.key] = slot
      <4>1. HotkeyLine(hk, l)[slot] = SetChord(hk[slot], l.val)
        BY <2>1, <3>3, <3>5 DEF HotkeyLine, HotkeyTable
      <4>2. CASE l.val \in {<<"off">>, <<"none">>, <<>>}
        <5>1. SetChord(hk[slot], l.val) = BindingFromCombo(l.val)
          BY <4>2, ClearedIsUnbound DEF SetChord
        <5>2. Sets(l, slot)
          BY <3>5, <4>2 DEF Sets, Means
        <5> QED
          BY <2>1, <3>2, <4>1, <5>1, <5>2
      <4>3. CASE l.val \notin {<<"off">>, <<"none">>, <<>>}
        <5> DEFINE c == ParseCombo(l.val)
        <5>1. SetChord(hk[slot], l.val) =
                 IF c.mods # {} /\ c.key # NoKey THEN BindingFromCombo(l.val) ELSE hk[slot]
          BY <4>3 DEF SetChord
        <5>2. Sets(l, slot) <=> c.mods # {} /\ c.key # NoKey
          BY <3>5, <4>3 DEF Sets, Means
        <5> HIDE DEF c
        <5> QED
          BY <2>1, <3>1, <3>2, <4>1, <5>1, <5>2
      <4> QED
        BY <4>2, <4>3
    <3> QED
      BY <3>4, <3>5
  <2>3. SlotsFollow(u)
    <3> HIDE DEF u
    <3> QED
      BY <2>2 DEF SlotsFollow
  <2> QED
    BY <2>1, <2>3
<1>3. Seq(FileLine) \subseteq R
  <2> HIDE DEF R
  <2> QED
    BY <1>1, <1>2, BuiltUp
<1> QED
  BY <1>3

\* There is always a hold, and it has a modifier.
HoldBound(s) == \E b : LoadHotkeys(s).ptt = {b} /\ BindingModsKey(b).mods # {}

LEMMA AlwaysAHold == \A s \in Seq(FileLine) : HoldBound(s)
<1> DEFINE R == {s \in Seq(FileLine) : HoldBound(s)}
<1>0. \A T : \A v \in Seq(T) : BindingFromCombo(v) # {} =>
            \E b : BindingFromCombo(v) = {b} /\ BindingModsKey(b).mods # {}
  <2> SUFFICES ASSUME NEW T, NEW v \in Seq(T), BindingFromCombo(v) # {}
               PROVE  \E b : BindingFromCombo(v) = {b} /\ BindingModsKey(b).mods # {}
    OBVIOUS
  <2>1. ParseCombo(v).mods # {}
    BY DEF BindingFromCombo
  <2>2. PICK b : BindingFromCombo(v) = {b} /\ BindingModsKey(b) = ParseCombo(v)
    BY <2>1, BindingTyped
  <2> QED
    BY <2>1, <2>2
<1>1. <<>> \in R
  <2> DEFINE none == <<>>
             d == <<"ctrl", "win">>
  <2>1. none \in Seq(FileLine) /\ LoadHotkeys(none) = DefaultHotkeys
    BY HotkeysSnoc
  <2>2. d \in Seq({"ctrl", "win"}) /\ Len(d) = 2 /\ d[1] = "ctrl" /\ 1 \in DOMAIN d
    OBVIOUS
  <2>3. DefaultHotkeys.ptt = BindingFromCombo(d)
    BY DEF DefaultHotkeys
  <2> HIDE DEF none, d
  <2>4. "ctrl" \in ToSet(d) \cap DOMAIN NameToMod
    BY <2>2 DEF ToSet, NameToMod
  <2>5. ParseCombo(d).mods # {}
    BY <2>4 DEF ParseCombo
  <2>6. \E b : BindingFromCombo(d) = {b} /\ BindingModsKey(b).mods # {}
    <3>1. PICK b : BindingFromCombo(d) = {b} /\ BindingModsKey(b) = ParseCombo(d)
      BY <2>2, <2>5, BindingTyped
    <3> QED
      BY <2>5, <3>1
  <2>7. none \in R
    BY <2>1, <2>3, <2>6 DEF HoldBound
  <2> QED
    BY <2>7 DEF none
<1>2. ASSUME NEW s \in Seq(FileLine), NEW l \in FileLine, s \in R PROVE Append(s, l) \in R
  <2> DEFINE hk == LoadHotkeys(s)
             u == Append(s, l)
  <2>1. u \in Seq(FileLine) /\ LoadHotkeys(u) = HotkeyLine(hk, l) /\ hk \in HotkeyTable
    BY Extended, HotkeysSnoc
  <2> HIDE DEF u
  <2>2. "ptt" \in DOMAIN hk /\ hk.ptt = hk["ptt"]
    BY <2>1 DEF HotkeyTable, HotkeySlots
  <2>3. HotkeyLine(hk, l)["ptt"] = hk["ptt"] \/ (/\ HotkeyLine(hk, l)["ptt"] = BindingFromCombo(l.val)
                                               /\ BindingFromCombo(l.val) # {})
    BY <2>1, <2>2 DEF HotkeyLine, HotkeyTable
  <2>4. l.val \in Seq(STRING)
    BY DEF FileLine
  <2>5. HoldBound(s)
    BY <1>2
  <2>6. HoldBound(u)
    BY <1>0, <2>1, <2>3, <2>4, <2>5 DEF HoldBound
  <2> QED
    BY <2>1, <2>6 DEF u
<1>3. Seq(FileLine) \subseteq R
  <2> HIDE DEF R
  <2> QED
    BY <1>1, <1>2, BuiltUp
<1> QED
  BY <1>3

\* The chords that the hook knows, one for each slot that is bound.
BoundSlots(hk) == KeepIn(Slots, {s \in DOMAIN hk : hk[s] # {}})

HoldFor(ptt) == BindingModsKey(CHOOSE b \in ptt : TRUE).mods
ChordFor(hk, slot) == BindingModsKey(CHOOSE b \in hk[slot] : TRUE)

LEMMA HookIs ==
    ASSUME NEW hk \in HotkeyTable, NEW h, h = StartHook(hk.ptt, ChordsOf(hk))
    PROVE  /\ BoundSlots(hk) \in Seq(SlotNames)
           /\ ToSet(BoundSlots(hk)) = {s \in SlotNames : hk[s] # {}}
           /\ h.actions = BoundSlots(hk)
           /\ Len(h.chords) = Len(BoundSlots(hk)) /\ DOMAIN h.chords = DOMAIN BoundSlots(hk)
           /\ \A i \in DOMAIN h.chords : h.chords[i] = ChordFor(hk, BoundSlots(hk)[i])
           /\ h.ptt = HoldFor(hk.ptt)
<1> DEFINE set == BoundSlots(hk)
           n == Len(set)
           all == [i \in DOMAIN set |-> ChordFor(hk, set[i])]
           S == {s \in DOMAIN hk : hk[s] # {}}
<1>1. set \in Seq(SlotNames) /\ n <= 3 /\ ToSet(set) = SlotNames \cap S
  <2>1. KeepIn(Slots, S) \in Seq(SlotNames) /\ Len(KeepIn(Slots, S)) <= Len(Slots)
        /\ ToSet(KeepIn(Slots, S)) = ToSet(Slots) \cap S
    <3> HIDE DEF S
    <3> QED
      BY SlotsAre, KeepsMembers
  <2> QED
    BY <2>1, SlotsAre DEF BoundSlots
<1>2. ToSet(set) = {s \in SlotNames : hk[s] # {}}
  BY <1>1 DEF HotkeyTable, HotkeySlots, SlotNames
<1>3. n \in Nat /\ DOMAIN set = 1..n
  BY <1>1
<1> HIDE DEF set
<1>4. \E T : all \in Seq(T) /\ Len(all) = n /\ DOMAIN all = 1..n
  <2> DEFINE T == {all[i] : i \in 1..n}
  <2>1. DOMAIN all = 1..n /\ all = [i \in 1..n |-> all[i]]
    BY <1>3
  <2> HIDE DEF all
  <2>2. \A i \in 1..n : all[i] \in T
    OBVIOUS
  <2> HIDE DEF T, n
  <2>3. all \in [1..n -> T]
    BY <2>1, <2>2
  <2>4. all \in Seq(T) /\ Len(all) = n
    BY <1>3, <2>3
  <2> QED
    BY <2>1, <2>4
<1>5. ChordsOf(hk).actions = set /\ DOMAIN ChordsOf(hk).bindings = DOMAIN set
      /\ \A i \in DOMAIN set : ChordsOf(hk).bindings[i] = CHOOSE b \in hk[set[i]] : TRUE
  BY DEF ChordsOf, set, BoundSlots
<1>6. h.chords = SubSeq(all, 1, IF Len(all) < MaxChords THEN Len(all) ELSE MaxChords)
      /\ h.actions = set /\ h.ptt = HoldFor(hk.ptt)
  <2> DEFINE c == ChordsOf(hk)
  <2>1. [i \in DOMAIN c.bindings |-> BindingModsKey(c.bindings[i])] = all
    BY <1>5 DEF ChordFor
  <2> HIDE DEF c, all
  <2>2. StartHook(hk.ptt, c) =
          [ptt |-> HoldFor(hk.ptt),
           chords |-> SubSeq(all, 1, IF Len(all) < MaxChords THEN Len(all) ELSE MaxChords),
           actions |-> c.actions]
    BY <2>1 DEF StartHook, HoldFor
  <2>3. c.actions = set /\ h = StartHook(hk.ptt, c)
    BY <1>5 DEF c
  <2> DEFINE few == SubSeq(all, 1, IF Len(all) < MaxChords THEN Len(all) ELSE MaxChords)
  <2>4. h = [ptt |-> HoldFor(hk.ptt), chords |-> few, actions |-> c.actions]
    BY <2>2, <2>3
  <2> HIDE DEF few
  <2>5. h.ptt = HoldFor(hk.ptt) /\ h.chords = few /\ h.actions = set
    BY <2>3, <2>4
  <2> QED
    BY <2>5 DEF few
<1>7. (IF Len(all) < MaxChords THEN Len(all) ELSE MaxChords) = Len(all)
  BY <1>1, <1>3, <1>4 DEF MaxChords
<1>8. h.chords = all
  <2>1. \A T : \A q \in Seq(T) : SubSeq(q, 1, Len(q)) = q
    OBVIOUS
  <2> HIDE DEF all
  <2> QED
    BY <1>4, <1>6, <1>7, <2>1
<1>9. \A i \in DOMAIN set : all[i] = ChordFor(hk, set[i])
  OBVIOUS
<1> HIDE DEF all
<1> QED
  BY <1>1, <1>2, <1>3, <1>4, <1>6, <1>8, <1>9 DEF set

\* What the hook of a launch is, when there is one.
LEMMA HookOfLaunch ==
    ASSUME FileTypes, NEW h \in hook
    PROVE  /\ h = StartHook(LoadHotkeys(Lines(hotkeys)).ptt, ChordsOf(LoadHotkeys(Lines(hotkeys))))
           /\ Lines(hotkeys) \in Seq(FileLine) /\ LoadHotkeys(Lines(hotkeys)) \in HotkeyTable
<1>1. h = HookOf(hotkeys)
  BY DEF FileTypes
<1>2. Lines(hotkeys) \in Seq(FileLine)
  BY FilesTyped
<1> QED
  BY <1>1, <1>2, HotkeysRead DEF HookOf

(* Type correctness over all launches: among it that every chord the hook   *)
(* knows has an action (chords), that there is a hold with a modifier      *)
(* (HotkeysConfig::load), that at most two engines fail in one launch      *)
(* (main), and that the partial file never outgrows the archive by more    *)
(* than went wrong (download_and_install).                                 *)
THEOREM TypeInvariant == Spec => []TypeOK
<1>1. PartTypes /\ InstallTypes => StoreTypeOK
  <2>1. PartTypes => part \in Seq(0..Size)
    BY DEF PartTypes, Chunks
  <2>2. PartTypes => Len(part) <= Size + MaxFaults /\ recv \in 1..(Size + 1) /\ faults \in 0..MaxFaults
    <3>1. PartTypes => Len(part) \in Nat
      BY ChunksGrow DEF PartTypes
    <3> QED
      BY <3>1, SizeAssumption, FaultAssumption DEF PartTypes
  <2> QED
    BY <2>1, <2>2 DEF InstallTypes, StoreTypeOK
<1>2. ASSUME LifeTypes, StoreTypeOK PROVE TypeOK
  <2>1. FileTypes /\ FlagTypes
    BY <1>2 DEF LifeTypes
  <2>2. Cardinality(setup) <= 1 /\ Cardinality(hook) <= 1
    <3>1. Cardinality({}) <= 1 /\ \A x : Cardinality({x}) <= 1
      BY FS_EmptySet, FS_Singleton
    <3>2. setup = {} \/ \E x : setup = {x}
      BY <2>1 DEF FileTypes, IsOne
    <3>3. hook = {} \/ \E x : hook = {x}
      BY <2>1 DEF FileTypes
    <3> QED
      BY <3>1, <3>2, <3>3
  <2>3. ASSUME NEW h \in hook PROVE Len(h.chords) = Len(h.actions) /\ h.ptt # {}
    <3> DEFINE s == Lines(hotkeys)
               hk == LoadHotkeys(s)
    <3>1. s \in Seq(FileLine) /\ hk \in HotkeyTable /\ h = StartHook(hk.ptt, ChordsOf(hk))
      BY <2>1, HookOfLaunch
    <3>2. \E b : hk.ptt = {b} /\ BindingModsKey(b).mods # {}
      BY <3>1, AlwaysAHold DEF HoldBound
    <3> HIDE DEF s, hk
    <3>3. Len(h.chords) = Len(h.actions) /\ h.ptt = HoldFor(hk.ptt)
      BY <3>1, HookIs
    <3>4. HoldFor(hk.ptt) # {}
      <4>1. PICK b : hk.ptt = {b} /\ BindingModsKey(b).mods # {}
        BY <3>2
      <4>2. (CHOOSE x \in hk.ptt : TRUE) = b
        BY <4>1
      <4> QED
        BY <4>1, <4>2 DEF HoldFor
    <3> QED
      BY <3>3, <3>4
  <2>4. {runKey, quit, done, icon} \subseteq BOOLEAN
    <3>1. runKey \in BOOLEAN /\ quit \in BOOLEAN /\ done \in BOOLEAN /\ icon \in BOOLEAN
      BY <2>1 DEF FileTypes, FlagTypes
    <3> QED
      BY <3>1, Zenon
  <2>5. /\ settings \in {{}, {Template}} \union {{f} : f \in SettingsFiles}
        /\ hotkeys \in {{}} \union {{f} : f \in HotkeyFiles}
    BY <2>1 DEF FileTypes, SomeSettings, SomeHotkeys
  <2>6. ThreadTypes /\ CounterTypes
    BY <1>2 DEF LifeTypes
  <2> QED
    BY <1>2, <2>2, <2>3, <2>4, <2>5, <2>6, Zenon DEF TypeOK, ThreadTypes, CounterTypes
<1> QED
  BY <1>1, <1>2, StoreTyped, LifeTyped, PTL

(* Whatever hotkeys.toml holds, while the program serves every chord the    *)
(* hook knows carries the action of the last line for it that means        *)
(* anything, or else the default, and a chord that was turned off is gone  *)
(* (HotkeysConfig::load, chords and Win32Hotkey::start).                   *)
THEOREM ChordsMeanWhatTheFileSays == Spec => []ChordMeaning
<1>1. ASSUME FileTypes, NEW h \in hook, NEW slot \in ToSet(Slots)
      PROVE  {h.chords[i] : i \in {j \in DOMAIN h.chords : h.actions[j] = slot}} =
             (IF ParseCombo(Chosen(slot)).mods = {} THEN {} ELSE {ParseCombo(Chosen(slot))})
  <2> DEFINE s == Lines(hotkeys)
             hk == LoadHotkeys(s)
             v == ChosenOf(s, slot)
             set == BoundSlots(hk)
             found == {h.chords[i] : i \in {j \in DOMAIN h.chords : h.actions[j] = slot}}
  <2>1. s \in Seq(FileLine) /\ hk \in HotkeyTable /\ h = StartHook(hk.ptt, ChordsOf(hk))
    BY <1>1, HookOfLaunch
  <2>2. slot \in SlotNames
    BY <1>1, SlotsAre
  <2>3. hk[slot] = BindingFromCombo(v)
    BY <2>1, <2>2, SlotsFollowFile DEF SlotsFollow
  <2>4. \E T : v \in Seq(T)
    <3>1. Unset(slot) \in Seq({"ctrl", "alt", "m", "o", "q"})
      BY DEF Unset
    <3> DEFINE I == {i \in 1..Len(s) : Sets(s[i], slot)}
    <3>2. v = IF I = {} THEN Unset(slot) ELSE IF Max(I) = 0 THEN Unset(slot) ELSE s[Max(I)].val
      BY DEF ChosenOf, SelectLastInSeq
    <3>3. I # {} => Max(I) \in 1..Len(s)
      <4>1. I \subseteq 1..Len(s) /\ Len(s) \in Nat
        BY <2>1
      <4> HIDE DEF I, s
      <4> QED
        BY <4>1, LargestIn
    <3> HIDE DEF I, v
    <3>4. \A i \in 1..Len(s) : s[i].val \in Seq(STRING)
      <4> HIDE DEF s
      <4>1. \A i \in 1..Len(s) : s[i] \in FileLine
        BY <2>1
      <4> QED
        BY <4>1 DEF FileLine
    <3>5. v = Unset(slot) \/ v \in Seq(STRING)
      BY <3>2, <3>3, <3>4
    <3> QED
      BY <3>1, <3>5
  <2>5. Chosen(slot) = v
    BY DEF Chosen
  <2> HIDE DEF s, hk, v
  <2>6. /\ ToSet(set) = {q \in SlotNames : hk[q] # {}} /\ h.actions = set
        /\ DOMAIN h.chords = DOMAIN set
        /\ \A i \in DOMAIN h.chords : h.chords[i] = ChordFor(hk, set[i])
    BY <2>1, HookIs
  <2> HIDE DEF set
  <2>7. CASE ParseCombo(v).mods = {}
    <3>1. hk[slot] = {}
      BY <2>3, <2>7 DEF BindingFromCombo
    <3>2. \A j \in DOMAIN set : set[j] # slot
      BY <2>6, <3>1 DEF ToSet
    <3>3. found = {}
      BY <2>6, <3>2
    <3> QED
      BY <2>5, <2>7, <3>3
  <2>8. CASE ParseCombo(v).mods # {}
    <3>1. PICK b : BindingFromCombo(v) = {b} /\ BindingModsKey(b) = ParseCombo(v)
      BY <2>4, <2>8, BindingTyped
    <3>2. (CHOOSE x \in hk[slot] : TRUE) = b
      BY <2>3, <3>1
    <3>3. ChordFor(hk, slot) = ParseCombo(v)
      BY <3>1, <3>2 DEF ChordFor
    <3>4. PICK j \in DOMAIN set : set[j] = slot
      BY <2>2, <2>3, <2>6, <3>1 DEF ToSet
    <3>5. found = {ParseCombo(v)}
      BY <2>6, <3>3, <3>4
    <3> QED
      BY <2>5, <2>8, <3>5
  <2> QED
    BY <2>7, <2>8
<1>2. LifeTypes => ChordMeaning
  BY <1>1 DEF LifeTypes, ChordMeaning
<1> QED
  BY <1>2, LifeTyped, PTL

----------------------------------------------------------------------------
(* What a typo in the settings comes to.                                   *)

\* The settings r of a file whose typos have the keys K, against those c of the
\* file without them.
OffByTypos(r, c, K) ==
    /\ r.overlay = c.overlay /\ r.silence_rms = c.silence_rms /\ r.autostart = c.autostart
    /\ r.mode = c.mode \/ (ModeParse(r.mode) = "polish" /\ "mode" \in K)
    /\ \/ r.overlay_style = c.overlay_style
       \/ StyleIndex(r.overlay_style) = 3 /\ "overlay_style" \in K
    /\ \/ r.sidecar = c.sidecar
       \/ r.sidecar # "python" /\ "sidecar" \in K

KeysOfTypos(u) == {l.key : l \in {m \in ToSet(u) : ~Good(m)}}

\* A value that means nothing leaves a setting that is parsed where it was.
LEMMA BadBool ==
    \A v, d : v \notin {"true", "yes", "on", "1", "false", "no", "off", "0"} => ParseBool(v, d) = d
BY DEF ParseBool

LEMMA GoodBool ==
    \A v, d, e : v \in {"true", "yes", "on", "1", "false", "no", "off", "0"} =>
        ParseBool(v, d) = ParseBool(v, e)
BY DEF ParseBool

LEMMA LineOffByTypos ==
    ASSUME NEW r \in SettingsRecord, NEW c \in SettingsRecord, NEW K, NEW l \in SettingsLine,
           OffByTypos(r, c, K)
    PROVE  OffByTypos(SettingLine(r, l), IF Good(l) THEN SettingLine(c, l) ELSE c,
                      IF Good(l) THEN K ELSE K \union {l.key})
<1> USE DEF OffByTypos, SettingsRecord, SettingLine
<1>1. CASE l.key = "mode"
  <2>1. Good(l) \/ ModeParse(l.val) = "polish"
    BY <1>1 DEF Good, ModeParse
  <2> QED
    BY <1>1, <2>1
<1>2. CASE l.key = "overlay"
  <2>1. SettingLine(r, l) = [r EXCEPT !.overlay = ParseBool(l.val, r.overlay)]
        /\ SettingLine(c, l) = [c EXCEPT !.overlay = ParseBool(l.val, c.overlay)]
    BY <1>2
  <2>2. SettingLine(r, l).overlay = (IF Good(l) THEN SettingLine(c, l) ELSE c).overlay
    <3>1. Good(l) <=> l.val \in {"true", "yes", "on", "1", "false", "no", "off", "0"}
      BY <1>2 DEF Good
    <3> QED
      BY <2>1, <3>1, BadBool, GoodBool
  <2> HIDE DEF SettingLine
  <2> QED
    BY <2>1, <2>2
<1>3. CASE l.key = "overlay_style"
  <2>1. Good(l) \/ StyleIndex(l.val) = 3
    BY <1>3 DEF Good, StyleIndex
  <2> QED
    BY <1>3, <2>1
<1>4. CASE l.key = "sidecar"
  <2>1. Good(l) \/ l.val # "python"
    BY <1>4 DEF Good
  <2> QED
    BY <1>4, <2>1
<1>5. CASE l.key = "autostart"
  <2>1. SettingLine(r, l) = [r EXCEPT !.autostart = ParseBool(l.val, r.autostart)]
        /\ SettingLine(c, l) = [c EXCEPT !.autostart = ParseBool(l.val, c.autostart)]
    BY <1>5
  <2>2. SettingLine(r, l).autostart = (IF Good(l) THEN SettingLine(c, l) ELSE c).autostart
    <3>1. Good(l) <=> l.val \in {"true", "yes", "on", "1", "false", "no", "off", "0"}
      BY <1>5 DEF Good
    <3> QED
      BY <2>1, <3>1, BadBool, GoodBool
  <2> HIDE DEF SettingLine
  <2> QED
    BY <2>1, <2>2
<1>6. CASE l.key = "silence_rms"
  <2>1. /\ SettingLine(r, l) =
             [r EXCEPT !.silence_rms = IF l.val \in Numbers THEN l.val ELSE r.silence_rms]
        /\ SettingLine(c, l) =
             [c EXCEPT !.silence_rms = IF l.val \in Numbers THEN l.val ELSE c.silence_rms]
    BY <1>6
  <2>2. Good(l) <=> l.val \in Numbers
    BY <1>6 DEF Good
  <2> HIDE DEF SettingLine
  <2> QED
    BY <2>1, <2>2
<1>7. CASE l.key \notin {"mode", "overlay", "overlay_style", "sidecar", "autostart", "silence_rms"}
  <2>1. SettingLine(r, l) = r /\ SettingLine(c, l) = c
    BY <1>7
  <2> HIDE DEF SettingLine
  <2> QED
    BY <2>1
<1> QED
  BY <1>1, <1>2, <1>3, <1>4, <1>5, <1>6, <1>7

LEMMA FileOffByTypos ==
    ASSUME NEW T, T \subseteq SettingsLine
    PROVE  \A u \in Seq(T) :
               OffByTypos(LoadSettings(u), LoadSettings(KeepIn(u, {l \in T : Good(l)})), KeysOfTypos(u))
<1> DEFINE S == {l \in T : Good(l)}
           R == {u \in Seq(T) : OffByTypos(LoadSettings(u), LoadSettings(KeepIn(u, S)), KeysOfTypos(u))}
<1>0. Seq(T) \subseteq Seq(SettingsLine)
  OBVIOUS
<1>1. <<>> \in R
  <2> DEFINE none == <<>>
  <2>1. none \in Seq(T) /\ LoadSettings(none) = DefaultSettings
    BY SettingsSnoc
  <2>2. KeepIn(none, S) = none
    <3>1. PICK f : KeepTraced(f, T, S, <<>>)
      <4> HIDE DEF S
      <4> QED
        BY <2>1, KeepTrace
    <3> QED
      BY <3>1 DEF KeepTraced
  <2> HIDE DEF none, S
  <2>3. OffByTypos(LoadSettings(none), LoadSettings(KeepIn(none, S)), KeysOfTypos(none))
    BY <2>1, <2>2 DEF OffByTypos
  <2>4. none \in R
    BY <2>1, <2>3
  <2> QED
    BY <2>4 DEF none
<1>2. ASSUME NEW u \in Seq(T), NEW l \in T, u \in R PROVE Append(u, l) \in R
  <2> DEFINE w == Append(u, l)
             k == KeepIn(u, S)
             r == LoadSettings(u)
             c == LoadSettings(k)
  <2>1. w \in Seq(T) /\ ToSet(w) = ToSet(u) \union {l}
    BY Extended, Members
  <2>2. k \in Seq(T) /\ KeepIn(w, S) = IF l \in S THEN Append(k, l) ELSE k
    <3> HIDE DEF S
    <3> QED
      BY KeepSnoc
  <2>3. l \in SettingsLine /\ u \in Seq(SettingsLine) /\ k \in Seq(SettingsLine)
    BY <1>0, <2>2
  <2>4. r \in SettingsRecord /\ LoadSettings(w) = SettingLine(r, l)
    BY <2>3, SettingsSnoc
  <2>5. c \in SettingsRecord /\ LoadSettings(KeepIn(w, S)) = IF Good(l) THEN SettingLine(c, l) ELSE c
    <3> HIDE DEF k, w
    <3>1. c \in SettingsRecord /\ LoadSettings(Append(k, l)) = SettingLine(c, l)
      BY <2>3, SettingsSnoc
    <3>2. l \in S <=> Good(l)
      OBVIOUS
    <3> QED
      BY <2>2, <3>1, <3>2
  <2>6. OffByTypos(r, c, KeysOfTypos(u))
    BY <1>2
  <2>7. KeysOfTypos(w) = IF Good(l) THEN KeysOfTypos(u) ELSE KeysOfTypos(u) \union {l.key}
    <3> HIDE DEF w
    <3> QED
      BY <2>1 DEF KeysOfTypos
  <2> HIDE DEF w, k, r, c, S
  <2>8. OffByTypos(LoadSettings(w), LoadSettings(KeepIn(w, S)), KeysOfTypos(w))
    <3> DEFINE d == IF Good(l) THEN SettingLine(c, l) ELSE c
               L == IF Good(l) THEN KeysOfTypos(u) ELSE KeysOfTypos(u) \union {l.key}
    <3>1. OffByTypos(SettingLine(r, l), d, L)
      BY <2>3, <2>4, <2>5, <2>6, LineOffByTypos
    <3>2. LoadSettings(KeepIn(w, S)) = d /\ KeysOfTypos(w) = L
      BY <2>5, <2>7
    <3> HIDE DEF d, L
    <3> QED
      BY <2>4, <3>1, <3>2
  <2>9. w \in R
    BY <2>1, <2>8
  <2> QED
    BY <2>9 DEF w
<1>3. Seq(T) \subseteq R
  <2> HIDE DEF R
  <2> QED
    BY <1>1, <1>2, BuiltUp
<1> QED
  BY <1>3

(* A line of settings.toml that means nothing changes no other setting:    *)
(* overlay, autostart and silence_rms stay what the other lines make them; *)
(* mode, style and sidecar do or, if the line is theirs, become Polish, the *)
(* default and the default (Settings::load and main's use of it).          *)
THEOREM TyposDegradeOne == Spec => []TypoDegradesOne
<1>1. ASSUME FileTypes PROVE TypoDegradesOne
  <2> SUFFICES ASSUME main = "autostart" PROVE TypoDegradesOne
    BY DEF TypoDegradesOne
  <2> DEFINE lines == Lines(settings)
             T == ToSet(lines)
             r == LoadSettings(lines)
             c == LoadSettings(GoodLines(lines))
             K == {lines[i].key : i \in {j \in DOMAIN lines : ~Good(lines[j])}}
             fallback == [Default EXCEPT !.mode = "polish"]
  <2>1. lines \in Seq(SettingsLine)
    BY <1>1, FilesTyped
  <2>2. lines \in Seq(T) /\ T \subseteq SettingsLine
    <3> HIDE DEF lines
    <3>1. PICK e : e \in SettingsLine
      <4>1. [key |-> "mode", val |-> "auto"] \in SettingsLine
        BY DEF SettingsLine, Word
      <4> QED
        BY <4>1
    <3> QED
      BY <2>1, <3>1, Members
  <2>3. KeysOfTypos(lines) = K
    BY DEF KeysOfTypos, ToSet
  <2>4. OffByTypos(r, c, K)
    <3> HIDE DEF lines
    <3>1. OffByTypos(r, c, KeysOfTypos(lines))
      BY <2>2, FileOffByTypos DEF GoodLines
    <3> QED
      BY <2>3, <3>1
  <2>5. setup = {FromSettings(r)}
    BY <1>1 DEF FileTypes
  <2> HIDE DEF lines, r, c, K
  <2>6. ASSUME NEW f \in DOMAIN FromSettings(r)
        PROVE  \/ FromSettings(r)[f] = FromSettings(c)[f]
               \/ FromSettings(r)[f] = fallback[f] /\ \E k \in K \cap DOMAIN FieldOf : FieldOf[k] = f
    <3>1. f \in {"mode", "overlay", "style", "silence", "sidecar", "autostart", "dir"}
      BY DEF FromSettings
    <3>2. /\ FromSettings(r).overlay = FromSettings(c).overlay
          /\ FromSettings(r).silence = FromSettings(c).silence
          /\ FromSettings(r).autostart = FromSettings(c).autostart
          /\ FromSettings(r).dir = FromSettings(c).dir
      BY <2>4 DEF FromSettings, OffByTypos
    <3>3. fallback.mode = "polish" /\ fallback.style = 3 /\ fallback.sidecar = "native"
      <4>1. Default.style = 3 /\ Default.sidecar = "native"
        BY DEF Default, FromSettings, DefaultSettings, StyleIndex
      <4>2. {"mode", "style", "sidecar"} \subseteq DOMAIN Default
        BY DEF Default, FromSettings
      <4> QED
        BY <4>1, <4>2
    <3> HIDE DEF fallback
    <3>4. \/ FromSettings(r).mode = FromSettings(c).mode
          \/ FromSettings(r).mode = fallback.mode /\ \E k \in K \cap DOMAIN FieldOf : FieldOf[k] = "mode"
      <4>1. FromSettings(r).mode = ModeParse(r.mode) /\ FromSettings(c).mode = ModeParse(c.mode)
        BY DEF FromSettings
      <4>2. "mode" \in DOMAIN FieldOf /\ FieldOf["mode"] = "mode"
        BY DEF FieldOf
      <4> QED
        BY <2>4, <3>3, <4>1, <4>2 DEF OffByTypos
    <3>5. \/ FromSettings(r).style = FromSettings(c).style
          \/ FromSettings(r).style = fallback.style /\ \E k \in K \cap DOMAIN FieldOf : FieldOf[k] = "style"
      <4>1. /\ FromSettings(r).style = StyleIndex(r.overlay_style)
            /\ FromSettings(c).style = StyleIndex(c.overlay_style)
        BY DEF FromSettings
      <4>2. "overlay_style" \in DOMAIN FieldOf /\ FieldOf["overlay_style"] = "style"
        BY DEF FieldOf
      <4> QED
        BY <2>4, <3>3, <4>1, <4>2 DEF OffByTypos
    <3>6. \/ FromSettings(r).sidecar = FromSettings(c).sidecar
          \/ /\ FromSettings(r).sidecar = fallback.sidecar
             /\ \E k \in K \cap DOMAIN FieldOf : FieldOf[k] = "sidecar"
      <4>1. FromSettings(r).sidecar = (IF r.sidecar = "python" THEN "python" ELSE "native")
            /\ FromSettings(c).sidecar = (IF c.sidecar = "python" THEN "python" ELSE "native")
        BY DEF FromSettings
      <4>2. "sidecar" \in DOMAIN FieldOf /\ FieldOf["sidecar"] = "sidecar"
        BY DEF FieldOf
      <4> QED
        BY <2>4, <3>3, <4>1, <4>2 DEF OffByTypos
    <3> QED
      BY <3>1, <3>2, <3>4, <3>5, <3>6
  <2> QED
    BY <2>5, <2>6 DEF TypoDegradesOne, lines, r, c, K
<1>2. LifeTypes => TypoDegradesOne
  BY <1>1 DEF LifeTypes
<1> QED
  BY <1>2, LifeTyped, PTL
=============================================================================
