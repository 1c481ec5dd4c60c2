------------------------------- MODULE Recording -------------------------------
(***************************************************************************)
(* The recording path of the UAC 1.0 microphone applications, from the     *)
(* DFSDM to the USB packet: the circular buffer that the DMA interrupts of *)
(* the microphone fill in AUDIO_FillDataToBuffer and that the superloop    *)
(* empties in USBD_AUDIO_RecordingStreamFrameDone, on top of the frame     *)
(* buffers of AudioWriteStream, instantiated here.                         *)
(*                                                                         *)
(* The interrupts never read rd_ptr and the callback never reads wr_ptr    *)
(* but under the begin-of-stream flag, so the two only meet in the samples *)
(* of the buffer.  Sizes and offsets count any unit that divides the real  *)
(* byte counts.                                                            *)
(***************************************************************************)
EXTENDS Integers

CONSTANTS
  BufferSize,       \* audio_microphone_buffer.size, whole packets
  BufferAllocated,  \* USB_AUDIO_CONFIG_RECORD_BUFFER_SIZE, the memory behind it
  PacketLength,     \* usb_packet_length and mic_packet_length, a millisecond
  FrameCount        \* frame buffers of the USB stream

ASSUME SizesAssumption ==
  /\ PacketLength \in Nat \ {0}
  /\ BufferSize \in Nat
  /\ BufferAllocated \in Nat
  /\ BufferSize <= BufferAllocated
  /\ FrameCount \in Nat /\ FrameCount >= 2

(* 48 kHz: packets tile the buffer, there is no margin. *)
ASSUME TilingAssumption ==
  \E n \in 1 .. BufferSize : BufferSize = n * PacketLength

VARIABLES
  configured, endpoint, taskState, transfer, inFlight,
  frames, transferPos, accessPos, wire,   \* the USB stream, see AudioWriteStream
  pc,           \* where the superloop is; "idle" outside frame_done
  begun,        \* AUDIO_IO_BEGIN_OF_STREAM is set in flags
  rd, wr,       \* rd_ptr and wr_ptr of the circular buffer
  microphone,   \* audio_microphone_state
  lapped        \* history: the microphone has filled the buffer to its end

usbVars  == <<configured, endpoint, taskState, transfer, inFlight,
              frames, transferPos, accessPos, wire>>
ringVars == <<rd, wr, microphone, lapped>>
vars     == <<usbVars, pc, begun, ringVars>>

(* What a USB packet carries: a packet of the circular buffer, identified  *)
(* by its offset, the zeros of alt_buff, or nothing.                       *)
FromRing(offset) == [memory |-> "data", start |-> offset]
Silence  == [memory |-> "alt_buff", start |-> 0]
NoPacket == [memory |-> "none", start |-> 0]
Packets  == [memory : {"data"}, start : 0 .. BufferSize] \cup {Silence}

Stream == INSTANCE AudioWriteStream WITH
            Payloads <- Packets, Empty <- NoPacket, inCallback <- (pc # "idle")

TypeOK ==
  /\ Stream!StreamTypeOK
  /\ pc \in {"idle", "begin", "advance", "write"}
  /\ begun \in BOOLEAN
  /\ rd \in 0 .. BufferSize - 1
  /\ wr \in 0 .. BufferSize - 1
  /\ microphone \in {"INITIALIZED", "STARTED"}
  /\ lapped \in BOOLEAN

(* USBD_AUDIO_RecordingInit has started the DMA of the microphone. *)
Init ==
  /\ pc = "idle"
  /\ Stream!Init
  /\ begun = FALSE
  /\ rd = 0
  /\ wr = 0
  /\ microphone = "INITIALIZED"
  /\ lapped = FALSE

-----------------------------------------------------------------------------
(* The USB side *)

ControlRequest ==
  /\ UNCHANGED pc
  /\ Stream!SetConfiguration \/ Stream!CloseStream
  /\ UNCHANGED <<begun, ringVars>>

(* USBD_AUDIO_RecordingStreamChange; nothing stops the microphone again. *)
OpenStream ==
  /\ UNCHANGED pc
  /\ Stream!OpenStream(Silence)
  /\ microphone' = "STARTED"
  /\ UNCHANGED <<begun, rd, wr, lapped>>

Disconnect ==
  /\ UNCHANGED pc
  /\ Stream!Disconnect
  /\ UNCHANGED <<begun, ringVars>>

PacketSent ==
  /\ UNCHANGED pc
  /\ Stream!PacketSent
  /\ UNCHANGED <<begun, ringVars>>

ArmTransfer ==
  /\ UNCHANGED pc
  /\ Stream!ArmTransfer
  /\ UNCHANGED <<begun, ringVars>>

FinishTransfer ==
  /\ pc' = "begin"
  /\ Stream!FinishTransfer
  /\ UNCHANGED <<begun, ringVars>>

-----------------------------------------------------------------------------
(* USBD_AUDIO_RecordingStreamFrameDone *)

(* The threshold of half a buffer applies, and the flag is set, only when  *)
(* the flag is set already.                                                *)
CheckBegin ==
  /\ pc = "begin"
  /\ IF begun /\ wr < BufferSize \div 2
       THEN /\ pc' = "idle"
            /\ Stream!WriteAndReturn(Silence)
       ELSE /\ pc' = "advance"
            /\ UNCHANGED usbVars
  /\ UNCHANGED <<begun, ringVars>>

NextRead == rd + PacketLength

(* The comparisons at the end of the buffer. *)
WrapRead(r) == IF r > BufferSize THEN r - BufferSize ELSE r
NormaliseWithoutReset(r) == r   \* seeded fault: the end itself is not wrapped
Normalise(r) == IF r = BufferSize THEN 0 ELSE r

(* A packet that straddles the end is completed with a copy of the head of *)
(* the buffer; when the memory has no room for it nothing is written.      *)
AdvanceRead ==
  /\ pc = "advance"
  /\ \/ /\ NextRead > BufferSize /\ NextRead >= BufferAllocated
        /\ rd' = WrapRead(NextRead)
        /\ pc' = "idle"
        /\ Stream!ReturnOnly
     \/ /\ NextRead > BufferSize => NextRead < BufferAllocated
        /\ rd' = Normalise(WrapRead(NextRead))
        /\ pc' = "write"
        /\ UNCHANGED usbVars
  /\ UNCHANGED <<begun, wr, microphone, lapped>>

WriteNothing ==   \* seeded fault: the callback ends without frame_write
  /\ pc = "write"
  /\ pc' = "idle"
  /\ Stream!ReturnOnly
  /\ UNCHANGED <<begun, ringVars>>

WritesAgain ==   \* seeded fault: the callback goes on after frame_write
  /\ pc = "write"
  /\ UNCHANGED pc
  /\ Stream!WriteFrame(FromRing(rd))
  /\ UNCHANGED <<configured, endpoint, taskState, transfer, inFlight, wire>>
  /\ UNCHANGED <<begun, ringVars>>

WritePacket ==
  /\ pc = "write"
  /\ pc' = "idle"
  /\ Stream!WriteAndReturn(FromRing(rd))
  /\ UNCHANGED <<begun, ringVars>>

FrameDone == CheckBegin \/ AdvanceRead \/ WritePacket

-----------------------------------------------------------------------------
(* BSP_AUDIO_IN_HalfTransfer_CallBack and ..._TransferComplete_CallBack: a *)
(* packet of the scratch buffer is stored, whatever rd_ptr is.             *)

NextWriteNoWrap(w) == w + PacketLength   \* seeded fault: wr_ptr is not wrapped
NextWrite(w) == IF w + PacketLength = BufferSize THEN 0 ELSE w + PacketLength

MicrophonePacket ==
  /\ microphone = "STARTED"
  /\ wr' = NextWrite(wr)
  /\ lapped' = (lapped \/ wr + PacketLength >= BufferSize)
  /\ UNCHANGED <<usbVars, pc, begun, rd, microphone>>

-----------------------------------------------------------------------------

Superloop == ArmTransfer \/ FinishTransfer \/ FrameDone

Next ==
  \/ ControlRequest \/ OpenStream \/ Disconnect \/ PacketSent
  \/ Superloop
  \/ MicrophonePacket

(* The superloop always comes round, and a host that records polls the     *)
(* endpoint.  Nothing is assumed of control requests and disconnections.   *)
Spec == Init /\ [][Next]_vars /\ WF_vars(Superloop) /\ WF_vars(PacketSent)

-----------------------------------------------------------------------------
(* Properties *)

(* Neither the interrupt nor the callback leaves the memory of the buffer: *)
(* a packet stored at wr_ptr and a packet taken at rd_ptr end inside it,   *)
(* although both pointers are compared with the end after the access.      *)
CopiesInBounds ==
  /\ wr + PacketLength <= BufferAllocated
  /\ pc = "write" => rd + PacketLength <= BufferAllocated

(* The class always has a frame to send when it arms a transfer: each      *)
(* callback writes the one frame that the next packet will carry, whatever *)
(* closings, reopenings and bus resets come between the two.               *)
NeverStarves ==
  pc = "idle" /\ configured /\ endpoint /\ taskState = "START" =>
    frames[transferPos] # NoPacket

(* The host receives the frames in the order they were written, each once: *)
(* the frame buffers of AudioWriteStream implement FrameQueue.             *)
HostHearsInOrder == Stream!Queue!Spec

(* The application uses the frame buffers as the class expects: it writes  *)
(* from the callbacks only, and at most one frame in each.                 *)
UsesStream == Stream!Spec

(* As long as the stream stays open and the host keeps polling, packets of *)
(* the microphone keep reaching the host.                                  *)
KeepsSending ==
  <>[]endpoint => []<>(transfer = "done" /\ inFlight.memory = "data")

(* Before the first packet is taken from the buffer, half of it has been   *)
(* recorded.                                                               *)
HalfBufferFirst ==
  pc = "write" => lapped \/ wr >= BufferSize \div 2
=============================================================================
