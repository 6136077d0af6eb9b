---------------------------- MODULE MCCaptureStream ----------------------------
EXTENDS CaptureStream

\* Linux with PipeWire, Windows with the composite, macOS (and Linux without PipeWire).
MCPlatforms == {{"pipewire"}, {"cpal", "wasapi"}, {"cpal"}}
===============================================================================
