----------------------------- MODULE Framebuffer -----------------------------
(***************************************************************************)
(* The GUI's display, Framebuffer.cpp: two buffers on a DRM device, a page *)
(* flip asked for at a time, and the callback that draws when it is done;  *)
(* with the terminal the class takes over and gives back.  Gui composes it *)
(* with the rest of the process.                                           *)
(*                                                                         *)
(* Of the kernel, outside the repository: a flip takes effect at the next  *)
(* vertical blanking and leaves an event on the descriptor; only one can   *)
(* be pending.  A picture is the number of the measurement it shows.       *)
(***************************************************************************)
EXTENDS Naturals

VARIABLES
  currentFb, backbuffer,    (* the members                                  *)
  content,    (* the picture in each buffer                                *)
  scanout,    (* the buffer the display shows, or Console                  *)
  pending,    (* the buffer of the pending flip, or NoFb                   *)
  flipEvent,  (* the event of a flip waits on driFd                        *)
  tty         (* "text" or "graphics"                                      *)

fbVars == <<currentFb, backbuffer, content, scanout, pending, flipEvent>>

Buffers == 0 .. 1
Console == 2
NoFb == 3

FbInit ==
  /\ currentFb = 0 /\ backbuffer = 0
  /\ content = [b \in Buffers |-> 0]
  /\ scanout = Console
  /\ pending = NoFb /\ flipEvent = FALSE

Vblank ==
  /\ pending # NoFb
  /\ scanout' = pending
  /\ pending' = NoFb
  /\ flipEvent' = TRUE
  /\ UNCHANGED <<currentFb, backbuffer, content, tty>>

(* The class's members and buffers once its constructor ran: initKms()     *)
(* shows buffer 0 and asks for a flip to buffer 1.                         *)
InitKms ==
  /\ content' = [b \in Buffers |-> 0]
  /\ backbuffer' = 0
  /\ scanout' = 0
  /\ pending' = 1 /\ currentFb' = 1
  /\ flipEvent' = FALSE

(* What the destructor and the kernel leave: no buffers, the original mode.*)
FbGone ==
  /\ currentFb' = 0 /\ backbuffer' = 0
  /\ content' = [b \in Buffers |-> 0]
  /\ scanout' = Console
  /\ pending' = NoFb /\ flipEvent' = FALSE

(* The buffer PageFlipHandler() hands out: "currentFb ? 1 : 0".            *)
NextFb == IF currentFb # 0 THEN 1 ELSE 0

RequestFbFlip(index) ==
  /\ pending = NoFb
  /\ pending' = index
  /\ currentFb' = index

(* Mutants of PageFlipHandler: no flip without something new to show;      *)
(* drawing into the buffer that is not flipped to.                         *)
FlipWhenChanged(picture) ==
  /\ flipEvent
  /\ flipEvent' = FALSE
  /\ backbuffer' = NextFb
  /\ content' = [content EXCEPT ![NextFb] = picture]
  /\ IF picture # content[NextFb] THEN RequestFbFlip(NextFb)
                                  ELSE UNCHANGED <<pending, currentFb>>
  /\ UNCHANGED <<scanout, tty>>
DrawIntoOther(picture) ==
  /\ flipEvent
  /\ flipEvent' = FALSE
  /\ backbuffer' = 1 - NextFb
  /\ content' = [content EXCEPT ![1 - NextFb] = picture]
  /\ RequestFbFlip(NextFb)
  /\ UNCHANGED <<scanout, tty>>

(* PageFlipHandler() with the renderer's callback, which copies "picture"  *)
(* into the buffer, and the flip asked for after it.                       *)
PageFlipHandler(picture) ==
  /\ flipEvent
  /\ flipEvent' = FALSE
  /\ backbuffer' = NextFb
  /\ content' = [content EXCEPT ![NextFb] = picture]
  /\ RequestFbFlip(NextFb)
  /\ UNCHANGED <<scanout, tty>>

(* drmModePageFlip() refuses: the exception is logged at the event, and    *)
(* nothing asks for a flip again.                                          *)
FlipRefused(picture) ==
  /\ flipEvent
  /\ flipEvent' = FALSE
  /\ backbuffer' = NextFb
  /\ content' = [content EXCEPT ![NextFb] = picture]
  /\ UNCHANGED <<pending, currentFb, scanout, tty>>

FbTypeOK ==
  /\ currentFb \in Buffers /\ backbuffer \in Buffers
  /\ content \in [Buffers -> Nat]
  /\ scanout \in Buffers \cup {Console}
  /\ pending \in Buffers \cup {NoFb}
  /\ flipEvent \in BOOLEAN
  /\ tty \in {"text", "graphics"}

=============================================================================
