------------------------------- MODULE LeoBl2 -------------------------------
(***************************************************************************)
(* Leo BL2 with OP-TEE as BL32 (AARCH32_SP_OPTEE): the platform hooks BL2  *)
(* calls, in the order it calls them.                                      *)
(*                                                                         *)
(*  - bl2_el3_early_platform_setup (plat/leo/l1/bl2_plat_setup.c:27-58):  *)
(*    leo_console_init registers the 16550 debug console;                  *)
(*  - bl2_el3_plat_arch_setup (bl2_plat_setup.c:77-94): MMU,               *)
(*    device tree check, leo_io_setup (bl2_io_storage.c:157-168);          *)
(*  - bl2_platform_setup (bl2_plat_setup.c:66-75): leo_security_setup,     *)
(*    that is init_tzc400 (l1_security.c:34-66);                           *)
(*  - for each image of the load list: plat_get_image_source               *)
(*    (bl2_io_storage.c:174-190), the load, and                            *)
(*    bl2_plat_handle_post_image_load (bl2_plat_setup.c:101-160);          *)
(*  - the jump to BL32.                                                    *)
(*                                                                         *)
(* The generic BL2 loop, the load list and parse_optee_header are TF-A     *)
(* library code that this repository does not hold; they are modelled from *)
(* the TF-A design they are written against.                               *)
(*                                                                         *)
(* Addresses are in MiB: every constant involved is a multiple of 1 MiB,   *)
(* and a 32-bit address is a number below 4096.                            *)
(***************************************************************************)
EXTENDS Integers, Sequences

CONSTANTS
  Headers,        \* the OP-TEE headers the BL32 partition may hold
  NS_IMAGE_BASE   \* where the BL33 descriptor loads BL33 and enters it

\* 32-bit address arithmetic, in MiB.
Word(a) == a % 4096

\* leo_def.h:25-34, 57-60 and 86-90.
LEO_SYSRAM_BASE == 2048        \* 0x80000000
LEO_SYSRAM_SIZE == 16          \* 0x01000000
LEO_DDR_BASE == 2048           \* 0x80000000
LEO_DDR_MAX_SIZE == 3840       \* 0xF0000000
LEO_DDR_S_SIZE == 32           \* 0x02000000
LEO_DDR_SHMEM_SIZE == 2        \* 0x00200000
LEO_BL32_SIZE == 2
LEO_BL32_BASE == LEO_SYSRAM_BASE + LEO_SYSRAM_SIZE - LEO_BL32_SIZE
LEO_OPTEE_BASE == LEO_BL32_BASE
LEO_OPTEE_SIZE == 2
LEO_DEVICE2_BASE == 3072       \* 0xC0000000: DDR ends here

\* The images of the OP-TEE load list, in the order BL2 loads them.
BL32 == "BL32"
BL32_EXTRA1 == "BL32_EXTRA1"   \* the pager
BL32_EXTRA2 == "BL32_EXTRA2"   \* the paged image
BL33 == "BL33"
LoadList == <<BL32, BL32_EXTRA1, BL32_EXTRA2, BL33>>
Images == {BL32, BL32_EXTRA1, BL32_EXTRA2, BL33}
OpteeImages == {BL32_EXTRA1, BL32_EXTRA2}

\* A load address the header gives: an address, INVALID_LOAD_ADDR (use the
\* descriptor's), or ABSENT (the header lists no such image).
INVALID_LOAD_ADDR == -1
ABSENT == -2
NoAddr == -3

\* The image descriptors as the load list declares them: the OP-TEE extra
\* images start with SKIP_LOADING set; parse_optee_header clears it.
Desc(i) ==
  [base |-> CASE i = BL33 -> NS_IMAGE_BASE
               [] i = BL32_EXTRA2 -> 0
               [] OTHER -> LEO_OPTEE_BASE,
   max |-> IF i = BL33 THEN 0 ELSE LEO_OPTEE_SIZE,
   pc |-> IF i = BL33 THEN NS_IMAGE_BASE ELSE 0,
   arg0 |-> 0,
   lr_svc |-> 0,
   skip |-> i \in OpteeImages,
   at |-> NoAddr]

\* The TZC-400 regions BL2 programs.  A region that BL2 has not programmed
\* is left as the boot ROM set it; Unset marks it.
Unset == [base |-> -1, top |-> -1, s |-> "rom", ns |-> "rom"]

VARIABLES
  pc,          \* where BL2 is
  idx,         \* position in LoadList
  header,      \* the OP-TEE header in the BL32 partition
  dummyOpen,   \* dummy_dev_handle has been opened by leo_io_setup
  region,      \* region[r]: TZC-400 region r, for r in 1..2
  tzcAction,   \* the TZC-400 action on a denied access
  img          \* img[i]: the descriptor of image i

vars == <<pc, idx, header, dummyOpen, region, tzcAction, img>>

Init ==
  /\ pc = "early_setup"
  /\ idx = 1
  /\ header \in Headers
  /\ dummyOpen = FALSE
  /\ region = [r \in 1..2 |-> Unset]
  /\ tzcAction = "rom"
  /\ img = [i \in Images |-> Desc(i)]

----------------------------------------------------------------------------
(* parse_optee_header and parse_optee_image (TF-A lib/optee).  A header    *)
(* that fails tee_validate_header puts OP-TEE in legacy mode and changes   *)
(* nothing.  Otherwise each listed image must fit the window its           *)
(* descriptor reserves (one MiB each, here); it then moves to the header's *)
(* load address, or stays at the window base for INVALID_LOAD_ADDR, and    *)
(* its SKIP_LOADING is cleared.                                            *)

LoadAddr(d, a) == IF a = INVALID_LOAD_ADDR THEN d.base ELSE a
Fits(d, a) ==
  a = ABSENT \/ (d.base <= LoadAddr(d, a) /\ LoadAddr(d, a) + 1 <= d.base + d.max)
ParseImage(d, a) ==
  IF a = ABSENT THEN d ELSE [d EXCEPT !.base = LoadAddr(d, a), !.skip = FALSE]

ParseOk(pager, paged) ==
  header.kind = "legacy" \/ (Fits(pager, header.pager) /\ Fits(paged, header.paged))

----------------------------------------------------------------------------
(* BL2.                                                                    *)

\* The debug console, leo_def.h:95-101: UART0 at 0x54E00000 (in MiB, as
\* every address here), 115200 baud, a 58.3 MHz UART clock.
UART0_BASE == 1358
LEO_UART_BAUDRATE == 115200
LEO_DEBUG_USART_BASE == UART0_BASE
LEO_DEBUG_USART_CLK_FRQ == 58300000

\* console_16550_register (TF-A drivers/ti/uart) returns 1 once it has
\* registered the console, and 0, registering nothing, when the base, the
\* clock or the baud rate is zero.
console_16550_register(base, clk, baud) ==
  IF base = 0 \/ clk = 0 \/ baud = 0 THEN 0 ELSE 1

\* bl2_el3_early_platform_setup is leo_console_init, which panics when the
\* console cannot be registered (lines 38-45); the scope it then sets only
\* selects where messages are printed.
bl2_el3_early_platform_setup ==
  /\ pc = "early_setup"
  /\ LET rc == console_16550_register(LEO_DEBUG_USART_BASE,
                                      LEO_DEBUG_USART_CLK_FRQ,
                                      LEO_UART_BAUDRATE)
     IN  pc' = IF rc = 0 THEN "panic" ELSE "arch_setup"
  /\ UNCHANGED <<idx, header, dummyOpen, region, tzcAction, img>>

\* dt_open_and_check (l1_dt.c:24-27) is a stub that returns 0.
DtOpenAndCheck == 0

\* bl2_el3_plat_arch_setup: the MMU set-up, the device-tree check, whose
\* panic (line 90) is never taken, and leo_io_setup, which registers and
\* opens the dummy device.
Bl2El3PlatArchSetup ==
  /\ pc = "arch_setup"
  /\ IF DtOpenAndCheck < 0
       THEN pc' = "panic" /\ UNCHANGED dummyOpen
       ELSE pc' = "platform_setup" /\ dummyOpen' = TRUE
  /\ UNCHANGED <<idx, header, region, tzcAction, img>>

\* init_tzc400 (l1_security.c:34-66): region 1 from LEO_DDR_BASE over
\* LEO_SYSRAM_SIZE, secure and all NS masters read/write; region 2 right
\* above it over LEO_DDR_S_SIZE, secure only; denied accesses raise an
\* error.  The filters are neither disabled nor re-enabled (lines 40, 65).
InitTzc400 ==
  /\ LET top1 == LEO_DDR_BASE + LEO_SYSRAM_SIZE - 1
     IN  region' = [region EXCEPT
           ![1] = [base |-> LEO_DDR_BASE, top |-> top1, s |-> "rdwr",
                   ns |-> "rdwr"],
           ![2] = [base |-> top1 + 1, top |-> top1 + LEO_DDR_S_SIZE,
                   s |-> "rdwr", ns |-> "none"]]
  /\ tzcAction' = "err"

LeoSecuritySetup == InitTzc400

\* bl2_platform_setup: in the OP-TEE build, leo_security_setup.
Bl2PlatformSetup ==
  /\ pc = "platform_setup"
  /\ LeoSecuritySetup
  /\ pc' = "load"
  /\ UNCHANGED <<idx, header, dummyOpen, img>>

\* The IO policy of each image of the list (bl2_io_storage.c:95-139): all
\* four use the dummy device.  open_dummy and open_storage
\* (lines 141-155) succeed only on a device leo_io_setup opened, and it
\* opens the dummy device alone.
Policies == [i \in Images |-> "dummy"]
DevInit(dev) == IF dev = "dummy" /\ dummyOpen THEN 0 ELSE -1
PlatGetImageSource(i) == DevInit(Policies[i])

\* The load of LoadList[idx].  An image marked SKIP_LOADING is passed over.
\* Otherwise plat_get_image_source must succeed, or BL2 ends in
\* plat_error_handler; the image lands at its descriptor's base.
LoadImage ==
  /\ pc = "load"
  /\ LET i == LoadList[idx] IN
     \/ /\ img[i].skip
        /\ pc' = "post"
        /\ UNCHANGED img
     \/ /\ ~img[i].skip
        /\ IF PlatGetImageSource(i) = 0
             THEN /\ img' = [img EXCEPT ![i].at = img[i].base]
                  /\ pc' = "post"
             ELSE /\ pc' = "panic"
                  /\ UNCHANGED img
  /\ UNCHANGED <<idx, header, dummyOpen, region, tzcAction>>

\* Variant: the loop index moves past the end of the list.
AdvancePastEnd == /\ idx' = idx + 1
                  /\ pc' = IF idx < Len(LoadList) THEN "load" ELSE "handoff"

\* After the hook, the next image, or the jump to BL32 after the last one.
\* Variant: the loop forgets to move on to the next image.
AdvanceNoIncrement == /\ idx' = idx
                      /\ pc' = IF idx < Len(LoadList) THEN "load" ELSE "handoff"

Advance == /\ idx' = IF idx < Len(LoadList) THEN idx + 1 ELSE idx
           /\ pc' = IF idx < Len(LoadList) THEN "load" ELSE "handoff"

\* Variant: the pager and paged bases swapped in the boot info.
OpteeBootInfoSwapped(ep, pager, paged) ==
  [ep EXCEPT !.pc = paged.base, !.arg0 = pager.base]

\* Lines 138-144: OP-TEE starts in the pager, with the paged image's base
\* in r0 (arg1 and arg2, zero, are not kept).
OpteeBootInfo(ep, pager, paged) ==
  [ep EXCEPT !.pc = pager.base, !.arg0 = paged.base]

\* bl2_plat_handle_post_image_load for BL32 (lines 112-145): the header
\* image's entry is its base; the pager's window is the OP-TEE area; the
\* paged image's window base is computed in 32-bit arithmetic; then the
\* header is parsed (a parse error panics, lines 133-136) and BL32 enters
\* the pager with the paged image's base in r0.
PostLoadBl32 ==
  /\ pc = "post" /\ LoadList[idx] = BL32
  /\ LET pager == [img[BL32_EXTRA1] EXCEPT !.base = LEO_OPTEE_BASE,
                                           !.max = LEO_OPTEE_SIZE]
         paged == [img[BL32_EXTRA2] EXCEPT
                     !.base = Word(LEO_DDR_BASE + (LEO_DDR_MAX_SIZE
                                - LEO_DDR_S_SIZE - LEO_DDR_SHMEM_SIZE)),
                     !.max = LEO_DDR_S_SIZE]
         legacy == header.kind = "legacy"
         pager2 == IF legacy THEN pager ELSE ParseImage(pager, header.pager)
         paged2 == IF legacy THEN paged ELSE ParseImage(paged, header.paged)
     IN  IF ParseOk(pager, paged)
           THEN /\ img' = [img EXCEPT
                    ![BL32_EXTRA1] = pager2,
                    ![BL32_EXTRA2] = paged2,
                    ![BL32] = OpteeBootInfo(@, pager2, paged2)]
                /\ Advance
           ELSE /\ pc' = "panic"
                /\ UNCHANGED <<img, idx>>
  /\ UNCHANGED <<header, dummyOpen, region, tzcAction>>

\* For BL33 (lines 147-152): the node fetched at line 148 is BL33's own, so
\* BL33's lr_svc gets BL33's entry.
PostLoadBl33 ==
  /\ pc = "post" /\ LoadList[idx] = BL33
  /\ img' = [img EXCEPT ![BL33].lr_svc = img[BL33].pc]
  /\ Advance
  /\ UNCHANGED <<header, dummyOpen, region, tzcAction>>

\* The default case (lines 154-156).
PostLoadOther ==
  /\ pc = "post" /\ LoadList[idx] \notin {BL32, BL33}
  /\ Advance
  /\ UNCHANGED <<header, dummyOpen, region, tzcAction, img>>

Next ==
  \/ bl2_el3_early_platform_setup
  \/ Bl2El3PlatArchSetup \/ Bl2PlatformSetup \/ LoadImage
  \/ PostLoadBl32 \/ PostLoadBl33 \/ PostLoadOther

\* BL2 runs on one core; after the jump to BL32, or a panic, it takes no
\* further step.
Spec == Init /\ [][Next]_vars

\* Nothing else runs while BL2 does: it is the only program on the only
\* running core, so it keeps taking steps while it can.
FairSpec == Spec /\ WF_vars(Next)

----------------------------------------------------------------------------
(* Properties.                                                             *)

Addr == 0..4095
TypeOK ==
  /\ pc \in {"early_setup", "arch_setup", "platform_setup", "load", "post",
             "handoff", "panic"}
  /\ idx \in 1..Len(LoadList)
  /\ header \in Headers
  /\ dummyOpen \in BOOLEAN
  /\ region \in [1..2 -> {Unset} \cup
                 [base : Addr, top : Addr, s : {"rdwr"}, ns : {"rdwr", "none"}]]
  /\ tzcAction \in {"rom", "err"}
  /\ img \in [Images -> [base : Addr, max : Addr, pc : Addr, arg0 : Addr,
                         lr_svc : Addr, skip : BOOLEAN,
                         at : Addr \cup {NoAddr}]]

\* Where an address lands: DDR is LEO_DDR_BASE up to the device area at
\* LEO_DEVICE2_BASE.  Inside a programmed TZC-400 region, the region with
\* the highest number that covers the address decides the NS access.
InDdr(a) == LEO_DDR_BASE <= a /\ a < LEO_DEVICE2_BASE
NsDenied(a) ==
  LET rs == {r \in 1..2 : region[r].base <= a /\ a <= region[r].top}
  IN  /\ rs # {}
      /\ region[CHOOSE r \in rs : \A q \in rs : q <= r].ns = "none"

\* When BL2 jumps to BL32, BL32's entry point is where the code it names
\* was loaded: the pager image when the header lists one, the header image
\* itself in legacy mode; and r0 names where the paged image was loaded.
\* The bases are fixed by the BL32 hook (lines 118-142) and the images are
\* loaded by later iterations of the load loop.
Bl32EntryIsLoadedCode ==
  pc = "handoff" =>
    /\ img[BL32].pc = IF header.kind = "legacy" THEN img[BL32].at
                                                ELSE img[BL32_EXTRA1].at
    /\ (header.kind # "legacy" /\ header.paged # ABSENT)
          => img[BL32].arg0 = img[BL32_EXTRA2].at

\* When BL2 jumps to BL32, OP-TEE's lr_svc holds BL33's entry point, so
\* OP-TEE enters the normal world at BL33 when its initialisation is done.
\* This is what the BL33 hook (lines 147-152) is there to set.
Bl32ReturnsToBl33 ==
  pc = "handoff" => img[BL32].lr_svc = img[BL33].pc

\* Every OP-TEE image BL2 loads lands in DDR that the TZC-400, as
\* init_tzc400 programs it, closes to non-secure masters.
OpteeImagesProtected ==
  \A i \in OpteeImages \cup {BL32} :
    img[i].at # NoAddr => InDdr(img[i].at) /\ NsDenied(img[i].at)

\* The headers parse_optee_header accepts, stated on the addresses: a
\* legacy header, or a v2 header whose pager lies in the OP-TEE area and
\* whose paged image, if any, lies in its 32 MiB window at 0x6DE00000 (the
\* 32-bit sum of lines 122-124), INVALID_LOAD_ADDR standing for the base.
PagerWindow == 2062 .. 2063
PagedWindow == 1758 .. 1789
HeaderAccepted(h) ==
  \/ h.kind = "legacy"
  \/ /\ h.pager \in {INVALID_LOAD_ADDR} \cup PagerWindow
     /\ h.paged \in {ABSENT, INVALID_LOAD_ADDR} \cup PagedWindow

\* BL2 ends as the BL32 header dictates: from reset, through the console,
\* MMU and TZC set-up and the load loop over bl2_mem_params_descs, it
\* eventually jumps to BL32 when the header is one parse_optee_header
\* accepts, and stops in panic (line 135) when it is not; it never loops
\* and never stops early.
Bl2EndsAsHeaderDictates ==
  /\ HeaderAccepted(header) => <>(pc = "handoff")
  /\ ~HeaderAccepted(header) => <>(pc = "panic")
============================================================================
